---- MODULE Spec2Model ----
(***************************************************************************)
(* The callback / event-assembly subsystem of the cannonball QEMU plugin   *)
(* (src/plugin/src/callback.c): three hash tables of in-flight event       *)
(* records, each under its own mutex, filled by the translation and        *)
(* syscall-enter callbacks and drained by the execute, memory-access and   *)
(* syscall-return callbacks that the host runs on parallel vCPU threads.   *)
(*                                                                         *)
(* A callback whose body is one critical section of one mutex is one step: *)
(* it needs the mutex free and leaves it free.  The translation callback   *)
(* is several steps on its thread: its start_code test and its Load event  *)
(* run under no mutex, one step per access of the shared variable, and     *)
(* each record it makes is one step (newpc, newinstr, newmemaccess).       *)
(***************************************************************************)
EXTENDS Integers, Sequences, FiniteSets, TLC

----------------------------------------------------------------------------
(* Bounds of the model *)

\* translations the host requests
MaxTrans == 2
\* instructions in a translated block
MaxInsns == 2
\* heap allocations of the translation callbacks of a run (a memory record is two)
MaxAlloc == 2
\* syscall-enter callbacks of a run
MaxSys == 2
\* translations plus allocations of a run in which the guest both executes
\* translated code and makes syscalls
MaxMixed == 3

\* the vCPU threads of the host
Vcpu == {0, 1}

\* guest addresses of translated blocks, of memory accesses
TbVaddrs == {64}
MemVaddrs == {0, 5}
\* host-reported instruction sizes
InsnSizes == {1, 16}
\* syscall numbers, argument vectors and return values the guest produces
SysNums == {1, 2}
SysArgs == {<<1, 2, 3, 4, 5, 6, 7, 8>>}
SysRets == {-1, 7}
\* the loaded image as the host reports it: start_code, end_code, entry_code
HostImages == {[start |-> 0, end |-> 0, entry |-> 0],
               [start |-> 4, end |-> 9, entry |-> 5]}

----------------------------------------------------------------------------
(* The event model *)

NULL == 0
\* heap addresses
Addr == 1..(MaxAlloc + MaxSys)

\* bits of EventFlags, as a set of bit names: f.bits |= X is f \cup X
EventFlags_PC == {"PC"}
EventFlags_READS_WRITES == {"READS_WRITES"}
EventFlags_INSTRS == {"INSTRS"}
EventFlags_SYSCALLS == {"SYSCALLS"}
EventFlags_BRANCHES == {"BRANCHES"}
EventFlags_LOAD == {"LOAD"}

B2F(b, bits) == IF b THEN bits ELSE {}

\* as SETFLAGS, but the READS_WRITES bit is never set
SETFLAGS_without_rw(f, p, rw, i, s, b) ==
    f \cup B2F(p, EventFlags_PC) \cup B2F(i, EventFlags_INSTRS)
      \cup B2F(s, EventFlags_SYSCALLS) \cup B2F(b, EventFlags_BRANCHES)

SETFLAGS(f, p, rw, i, s, b) ==
    f \cup B2F(p, EventFlags_PC) \cup B2F(rw, EventFlags_READS_WRITES)
      \cup B2F(i, EventFlags_INSTRS) \cup B2F(s, EventFlags_SYSCALLS)
      \cup B2F(b, EventFlags_BRANCHES)

PC(f) == (f \cap EventFlags_PC) # {}
READS_WRITES(f) == (f \cap EventFlags_READS_WRITES) # {}
INSTRS(f) == (f \cap EventFlags_INSTRS) # {}
SYSCALLS(f) == (f \cap EventFlags_SYSCALLS) # {}
BRANCHES(f) == (f \cap EventFlags_BRANCHES) # {}

BRANCHONLY(f) == BRANCHES(f) /\ ~PC(f) /\ ~READS_WRITES(f) /\ ~INSTRS(f)
\* as NOINSN, but BRANCHES does not count as a per-instruction feature
NOINSN_without_branches(f) == ~PC(f) /\ ~READS_WRITES(f) /\ ~INSTRS(f)

NOINSN(f) == ~PC(f) /\ ~READS_WRITES(f) /\ ~INSTRS(f) /\ ~BRANCHES(f)

VARIABLES
    phase,              \* "uninit", "running" (callback_init returned Success), "failed",
                        \* "crashed" (the process was killed by a signal)
    flags,              \* static EventFlags flags
    host,               \* the image the host reports (qemu_plugin_start_code() ...)
    start_code, end_code, entry_code,
    heap,               \* Addr -> the record allocated there, or FreeCell
    brk,                \* the lowest address calloc has never handed out
    events_htable,      \* set of [key, value] entries
    mem_events_htable,
    syscall_htable,
    events_htable_lock, \* the set of threads holding the mutex (empty or one thread)
    mem_events_htable_lock,
    syscall_htable_lock,
    tb_trans_cb,        \* callbacks registered with the host by callback_init
    syscall_cb,
    syscall_ret_cb,
    atexit_cb,
    sender,             \* static Sender *sender: "NULL", "live", or "torn_down"
    rv,                 \* ErrorCode rv of qemu_plugin_install, returned to the host
    ran,                \* history: the steps qemu_plugin_install has run, in order
    hooks,              \* the hooks attached to the instructions of translated blocks:
                        \* callback, user-data pointer, the instruction's vaddr
                        \* (and, as history, rid: the id of the record it was made for)
    th,                 \* Vcpu -> the thread's position and locals
    sent,               \* the events handed to submit, in call order
    snd,                \* the Sender that setup made: its buffer, its socket and what
                        \* was written to the socket
    batch_size,         \* the batch size the plugin gives to setup
    exec_htable,        \* src/src/callback.c: static GHashTable *exec_htable, a set of
                        \* event pointers
    syscall_evt,        \* src/src/callback.c: static QemuEventExec *syscall_evt
    stale,              \* history: the accesses made through a pointer to a freed event
    argv,               \* src/plugin/src/args.c: the argv the host hands to the plugin
    args_global,        \* static Args *args: NullPtr, or Ptr of the Args record
    args_result,        \* the ErrorCode args_parse returned, "none" before the call
    log,                \* the messages handed to the logger
    acquired,           \* history: one [lock, held] for each mutex taken so far: the
                        \* mutex, and the mutexes the thread held when it took it
    ntrans,             \* translations so far
    nalloc,             \* allocations so far; a record's id is its allocation number
    nsys,               \* syscall-enter callbacks so far
    seen,               \* history: record id -> the flag-setting callbacks that found it
    dropped,            \* history: ids of records removed from a table unsubmitted
    last_enter          \* history: Vcpu -> the syscall-enter on it that no return
                        \* has followed yet, or NoEnter

vars == <<phase, flags, host, start_code, end_code, entry_code, heap, brk,
          events_htable, mem_events_htable, syscall_htable,
          events_htable_lock, mem_events_htable_lock, syscall_htable_lock,
          tb_trans_cb, syscall_cb, syscall_ret_cb, atexit_cb, sender, rv, ran,
          hooks, th, sent, snd, batch_size, exec_htable, syscall_evt, stale, argv,
          args_global, args_result, log, acquired, ntrans, nalloc, nsys, seen, dropped, last_enter>>

tables == <<events_htable, mem_events_htable, syscall_htable>>
mutexes == <<events_htable_lock, mem_events_htable_lock, syscall_htable_lock>>
locks == <<mutexes, acquired>>
stream == <<sent, snd>>
\* the state of args.c
cmdline == <<argv, args_global, args_result>>
\* the state of the single-table plugin of src/src/callback.c, and of args.c
outside == <<exec_htable, syscall_evt, stale, cmdline>>
globals == <<phase, flags, host, batch_size, outside, tb_trans_cb, syscall_cb,
             syscall_ret_cb, atexit_cb, sender, rv, ran>>
codes == <<start_code, end_code, entry_code>>

----------------------------------------------------------------------------
(* The heap and the hash tables *)

FreeCell == [tag |-> "free"]
Idle == [pc |-> "idle"]
NoEnter == [pending |-> FALSE]

\* calloc returns an address that is not in use: one freed earlier, or a new one
Calloc(h, b) == {a \in Addr : (a < b /\ h[a] = FreeCell) \/ a = b}
Bump(b, a) == IF a = b THEN b + 1 ELSE b
Free(h, a) == [h EXCEPT ![a] = FreeCell]

HasKey(t, k) == \E e \in t : e.key = k
g_hash_table_lookup(t, k) ==
    IF HasKey(t, k) THEN (CHOOSE e \in t : e.key = k).value ELSE NULL
g_hash_table_insert(t, k, v) == {e \in t : e.key # k} \cup {[key |-> k, value |-> v]}
g_hash_table_replace(t, k, v) == {e \in t : e.key # k} \cup {[key |-> k, value |-> v]}
g_hash_table_remove(t, k) == {e \in t : e.key # k}

\* the sender: setup returns a live sender, submit appends the event to the
\* stream, teardown closes the sender
setup == "live"
submit(s, evt) == Append(s, evt)
teardown(client) == "torn_down"

\* #define BATCH_SIZE (64)
BATCH_SIZE == 64

\* the Sender object behind the pointer: the batch size it was set up with, the
\* events buffered and not yet written, the items written to the socket, the
\* socket ("none", "open", "broken" once the peer is gone, "closed"), the
\* failure latch, and the number of flushes so far
NoSender == [batch_size |-> 0, buffer |-> <<>>, wire |-> <<>>, sock |-> "none", failed |-> FALSE, flushes |-> 0]
Terminator == [tag |-> "Terminator"]

\* setup(batch_size, socket_path) once the socket is connected
sender_setup(b) == [batch_size |-> b, buffer |-> <<>>, wire |-> <<>>, sock |-> "open", failed |-> FALSE, flushes |-> 0]

\* one write on the socket: it succeeds on an open socket, and a failure
\* invalidates the sender
sender_write(s, items) ==
    IF s.failed THEN s
    ELSE IF s.sock = "open" THEN [s EXCEPT !.wire = @ \o items]
    ELSE [s EXCEPT !.failed = TRUE]

\* flush: the buffered events are written in one batch and the buffer is emptied
sender_flush(s) ==
    IF s.buffer = <<>> THEN s
    ELSE [sender_write(s, s.buffer) EXCEPT !.buffer = <<>>, !.flushes = @ + 1]

\* submit: a no-op on a failed sender; else the event is appended to the
\* buffer, which is flushed when it has accumulated batch_size events
sender_submit(s, evt) ==
    IF s.failed \/ s.sock \notin {"open", "broken"} THEN s
    ELSE LET b == [s EXCEPT !.buffer = Append(@, evt)] IN
         IF Len(b.buffer) >= b.batch_size THEN sender_flush(b) ELSE b

\* teardown: flush the residual events, send one terminator, close the socket
sender_teardown(s) ==
    [sender_write(sender_flush(s), <<Terminator>>) EXCEPT !.sock = "closed"]

\* submit(sender, evt) as the callbacks call it
Submit(evt) ==
    /\ sent' = submit(sent, evt)
    /\ snd' = sender_submit(snd, evt)

\* the mutexes a thread holds
HeldBy(v) ==
    {m \in {"events_htable_lock", "mem_events_htable_lock", "syscall_htable_lock"} :
        \/ (m = "events_htable_lock" /\ v \in events_htable_lock)
        \/ (m = "mem_events_htable_lock" /\ v \in mem_events_htable_lock)
        \/ (m = "syscall_htable_lock" /\ v \in syscall_htable_lock)}

g_mutex_lock(m) == <<"lock", m>>
g_mutex_unlock(m) == <<"unlock", m>>

\* submit serializes its callers on the sender's own lock
submit_mutexes == <<g_mutex_lock("sender_lock"), g_mutex_unlock("sender_lock")>>

\* as CriticalSection, but submit is entered first and the mutex taken inside it
CriticalSectionReversed(m, submits) ==
    IF submits
    THEN <<g_mutex_lock("sender_lock"), g_mutex_lock(m), g_mutex_unlock(m),
           g_mutex_unlock("sender_lock")>>
    ELSE <<g_mutex_lock(m), g_mutex_unlock(m)>>

\* the mutex operations of a callback, in program order: the section under
\* mutex m, with a call of submit inside it if the callback makes one
CriticalSection(m, submits) ==
    <<g_mutex_lock(m)>> \o (IF submits THEN submit_mutexes ELSE <<>>)
                       \o <<g_mutex_unlock(m)>>

\* history: what a thread that holds `held' adds to acquired by running ops
RECURSIVE Acquisitions(_, _)
Acquisitions(held, ops) ==
    IF ops = <<>> THEN {}
    ELSE LET op == Head(ops) IN
         IF op[1] = "lock"
         THEN {[lock |-> op[2], held |-> held]}
                 \cup Acquisitions(held \cup {op[2]}, Tail(ops))
         ELSE Acquisitions(held \ {op[2]}, Tail(ops))

log_info(l, msg) == Append(l, <<"info", msg>>)
log_error(l, msg) == Append(l, <<"error", msg>>)

----------------------------------------------------------------------------
InitOf(b, av) ==
    /\ phase = "uninit"
    /\ argv = av
    /\ args_global = <<>>
    /\ args_result = "none"
    /\ snd = NoSender
    /\ batch_size = b
    /\ exec_htable = {}
    /\ syscall_evt = NULL
    /\ stale = {}
    /\ flags = {}
    /\ host \in HostImages
    /\ start_code = 0 /\ end_code = 0 /\ entry_code = 0
    /\ heap = [a \in Addr |-> FreeCell]
    /\ brk = 1
    /\ events_htable = {} /\ mem_events_htable = {} /\ syscall_htable = {}
    /\ events_htable_lock = {} /\ mem_events_htable_lock = {}
    /\ syscall_htable_lock = {}
    /\ tb_trans_cb = FALSE /\ syscall_cb = FALSE /\ syscall_ret_cb = FALSE
    /\ atexit_cb = FALSE
    /\ sender = "NULL"
    /\ rv = "Success"
    /\ ran = <<>>
    /\ hooks = {}
    /\ th = [v \in Vcpu |-> Idle]
    /\ sent = <<>>
    /\ log = <<>>
    /\ acquired = {}
    /\ ntrans = 0
    /\ nalloc = 0
    /\ nsys = 0
    /\ seen = <<>>
    /\ dropped = {}
    /\ last_enter = [v \in Vcpu |-> NoEnter]

\* the callbacks are modelled with the arguments of callback_init drawn
\* directly: their command line is left empty and args_parse is not run
InitWith(b) == InitOf(b, <<>>)

\* the plugin as built: batches of BATCH_SIZE events
Init == InitWith(BATCH_SIZE)

\* as callback_init, but the atexit callback is registered before the sender is
\* set up
callback_init_atexit_first(trace_pc, trace_read, trace_write, trace_instr, trace_syscall, trace_branch, setup_ok) ==
    /\ phase = "uninit"
    /\ flags' = SETFLAGS(flags, trace_pc, trace_read \/ trace_write, trace_instr,
                         trace_syscall, trace_branch)
    /\ atexit_cb' = TRUE
    /\ phase' = IF setup_ok THEN "running" ELSE "failed"
    /\ rv' = IF setup_ok THEN "Success" ELSE "SenderInitError"
    /\ sender' = IF setup_ok THEN setup ELSE "NULL"
    /\ snd' = IF setup_ok THEN sender_setup(batch_size) ELSE snd
    /\ tb_trans_cb' = (setup_ok /\ ~NOINSN(flags'))
    /\ syscall_cb' = (setup_ok /\ SYSCALLS(flags'))
    /\ syscall_ret_cb' = (setup_ok /\ SYSCALLS(flags'))
    /\ log' = log_info(log, "Registering callback for vcpu exit")
    /\ acquired' = acquired \cup Acquisitions({},
                          CriticalSection("events_htable_lock", FALSE)
                          \o CriticalSection("mem_events_htable_lock", FALSE)
                          \o CriticalSection("syscall_htable_lock", FALSE))
    /\ UNCHANGED <<host, batch_size, outside, codes, heap, brk, tables, mutexes, hooks, th, sent,
                   ntrans, nalloc, nsys, seen, dropped, last_enter>>

\* as callback_init, but setup is given one more than the batch size
callback_init_batch_plus_one(trace_pc, trace_read, trace_write, trace_instr, trace_syscall, trace_branch, setup_ok) ==
    /\ phase = "uninit"
    /\ flags' = SETFLAGS(flags, trace_pc, trace_read \/ trace_write, trace_instr,
                         trace_syscall, trace_branch)
    /\ IF ~setup_ok
       THEN /\ phase' = "failed"
            /\ rv' = "SenderInitError"
            /\ sender' = "NULL"
            /\ log' = log_error(log, "Failed to setup sender.")
            /\ UNCHANGED <<snd, tb_trans_cb, syscall_cb, syscall_ret_cb, atexit_cb>>
       ELSE /\ phase' = "running"
            /\ rv' = "Success"
            /\ sender' = setup
            /\ snd' = sender_setup(batch_size + 1)
            /\ tb_trans_cb' = ~NOINSN(flags')
            /\ syscall_cb' = SYSCALLS(flags')
            /\ syscall_ret_cb' = SYSCALLS(flags')
            /\ atexit_cb' = TRUE
            /\ log' =
                 LET l1 == log_info(log, "Initialized send pipe.")
                     l2 == IF ~NOINSN(flags')
                           THEN log_info(l1, "Registering callback for instruction execution")
                           ELSE l1
                     l3 == IF SYSCALLS(flags')
                           THEN log_info(l2, "Registered syscall callbacks.")
                           ELSE l2
                     l4 == log_info(l3, "Registering callback for vcpu exit") IN
                 log_info(l4, "Initialized plugin callbacks.")
    /\ acquired' = acquired \cup Acquisitions({},
                          CriticalSection("events_htable_lock", FALSE)
                          \o CriticalSection("mem_events_htable_lock", FALSE)
                          \o CriticalSection("syscall_htable_lock", FALSE))
    /\ UNCHANGED <<host, batch_size, outside, codes, heap, brk, tables, mutexes, hooks, th, sent,
                   ntrans, nalloc, nsys, seen, dropped, last_enter>>

(* callback_init: the configuration mask, the sender, the host callbacks *)
callback_init(trace_pc, trace_read, trace_write, trace_instr, trace_syscall, trace_branch, setup_ok) ==
    /\ phase = "uninit"
    /\ flags' = SETFLAGS(flags, trace_pc, trace_read \/ trace_write, trace_instr,
                         trace_syscall, trace_branch)
    /\ IF ~setup_ok
       THEN /\ phase' = "failed"
            /\ rv' = "SenderInitError"
            /\ sender' = "NULL"
            /\ log' = log_error(log, "Failed to setup sender.")
            /\ UNCHANGED <<snd, tb_trans_cb, syscall_cb, syscall_ret_cb, atexit_cb>>
       ELSE /\ phase' = "running"
            /\ rv' = "Success"
            /\ sender' = setup
            /\ snd' = sender_setup(batch_size)
            /\ tb_trans_cb' = ~NOINSN(flags')
            /\ syscall_cb' = SYSCALLS(flags')
            /\ syscall_ret_cb' = SYSCALLS(flags')
            /\ atexit_cb' = TRUE
            /\ log' =
                 LET l1 == log_info(log, "Initialized send pipe.")
                     l2 == IF ~NOINSN(flags')
                           THEN log_info(l1, "Registering callback for instruction execution")
                           ELSE l1
                     l3 == IF SYSCALLS(flags')
                           THEN log_info(l2, "Registered syscall callbacks.")
                           ELSE l2
                     l4 == log_info(l3, "Registering callback for vcpu exit") IN
                 log_info(l4, "Initialized plugin callbacks.")
    /\ acquired' = acquired \cup Acquisitions({},
                          CriticalSection("events_htable_lock", FALSE)
                          \o CriticalSection("mem_events_htable_lock", FALSE)
                          \o CriticalSection("syscall_htable_lock", FALSE))
    /\ UNCHANGED <<host, batch_size, outside, codes, heap, brk, tables, mutexes, hooks, th, sent,
                   ntrans, nalloc, nsys, seen, dropped, last_enter>>

\* the error codes args_parse and log_init can return
ArgsParseRvs == {"Success", "OutOfMemory", "ArgumentError", "ArgumentHandlerExit"}
LogInitRvs == {"Success", "LogFileOpenFailed"}

\* as InstallSteps, but callback_init runs whatever log_init returned
InstallStepsIgnoreLog(args_rv, log_rv) ==
    IF args_rv # "Success" THEN <<"args_parse">>
    ELSE <<"args_parse", "log_init", "callback_init">>

\* the steps of qemu_plugin_install that run: each goto cleanup skips the rest
InstallSteps(args_rv, log_rv) ==
    IF args_rv # "Success" THEN <<"args_parse">>
    ELSE IF log_rv # "Success" THEN <<"args_parse", "log_init">>
    ELSE <<"args_parse", "log_init", "callback_init">>

(* qemu_plugin_install: args_parse, log_init, callback_init; the trace_*   *)
(* values are those of the Args record args_parse has filled in            *)
qemu_plugin_install(args_rv, log_rv, p, r, w, i, s, b, setup_ok) ==
    /\ phase = "uninit"
    /\ ran' = InstallSteps(args_rv, log_rv)
    /\ IF ran'[Len(ran')] = "callback_init"
       THEN callback_init(p, r, w, i, s, b, setup_ok)
       ELSE /\ phase' = "failed"
            /\ rv' = IF args_rv # "Success" THEN args_rv ELSE log_rv
            /\ UNCHANGED <<flags, host, batch_size, outside, tb_trans_cb, syscall_cb, syscall_ret_cb,
                           atexit_cb, sender, codes, heap, brk, tables, locks, hooks, th, stream,
                           log, ntrans, nalloc, nsys, seen, dropped, last_enter>>

Install ==
    \E args_rv \in ArgsParseRvs, log_rv \in LogInitRvs :
        \E p, r, w, i, s, b, ok \in BOOLEAN :
            qemu_plugin_install(args_rv, log_rv, p, r, w, i, s, b, ok)


----------------------------------------------------------------------------
(* The records: newpc, newinstr, newmemaccess, newsyscall, newload write   *)
(* the fields of a freshly allocated QemuEventMsg.  id is the allocation   *)
(* number of the record (history, not a field of the C struct).            *)

PcEvent(pc, branch, id) ==
    [tag |-> "Pc", flags |-> EventFlags_PC, pc |-> pc, branch |-> branch, id |-> id]

\* uint8_t opcode[MAX_OPCODE_SIZE]
MAX_OPCODE_SIZE == 16

\* memcpy(evt->event.instr.opcode, data, opcode_size) copies opcode_size bytes
InstrEvent(pc, data, opcode_size, id) ==
    [tag |-> "Instr", flags |-> EventFlags_INSTRS, pc |-> pc,
     opcode_size |-> opcode_size, opcode |-> SubSeq(data, 1, opcode_size), id |-> id]

MemAccessEvent(pc, addr, is_write, id) ==
    [tag |-> "MemAccess", flags |-> EventFlags_READS_WRITES, pc |-> pc,
     addr |-> addr, is_write |-> is_write, id |-> id]

MemWrapper(msg, id) ==
    [tag |-> "Wrapper", msg |-> msg, mem |-> FALSE, exec |-> FALSE, id |-> id]

SyscallEvent(num, args, id) ==
    [tag |-> "Syscall", flags |-> EventFlags_SYSCALLS, num |-> num, rv |-> -1,
     args |-> args, id |-> id]

\* as newload, but min and max are exchanged
newload_swapped(min, max, entry, prot) ==
    [tag |-> "Load", flags |-> EventFlags_LOAD, min |-> max, max |-> min,
     entry |-> entry, prot |-> prot, id |-> 0]

newload(min, max, entry, prot) ==
    [tag |-> "Load", flags |-> EventFlags_LOAD, min |-> min, max |-> max,
     entry |-> entry, prot |-> prot, id |-> 0]

\* the destroy functions given to g_hash_table_new_full by callback_init
events_key_destroy(h, k) == Free(h, k)
mem_events_key_destroy(h, k) == Free(h, k)
syscall_value_destroy(h, val) == Free(h, val)

\* the host's view of instruction i of a block at vaddr
InsnVaddr(vaddr, i) == vaddr + i
InsnData(size) == [b \in 1..size |-> 144]

----------------------------------------------------------------------------
(* callback_on_insn_exec: the execute hook of a Pc or Instr record *)

\* as callback_on_insn_exec, but the submitted record stays in the table
insn_exec_without_remove(v, h) ==
    /\ phase = "running" /\ th[v] = Idle
    /\ h \in hooks /\ h.cb = "insn_exec"
    /\ events_htable_lock = {}
    /\ LET msg == g_hash_table_lookup(events_htable, h.ud) IN
       IF msg # NULL
       THEN Submit(heap[msg])
       ELSE UNCHANGED stream
    /\ acquired' = acquired \cup Acquisitions(HeldBy(v), CriticalSection("events_htable_lock",
                          g_hash_table_lookup(events_htable, h.ud) # NULL))
    /\ UNCHANGED <<globals, codes, heap, brk, tables, mutexes, hooks, th, log,
                   ntrans, nalloc, nsys, seen, dropped, last_enter>>

\* as callback_on_insn_exec, but a miss submits whatever the pointer points at
insn_exec_miss_submits(v, h) ==
    /\ phase = "running" /\ th[v] = Idle
    /\ h \in hooks /\ h.cb = "insn_exec"
    /\ events_htable_lock = {}
    /\ LET msg == g_hash_table_lookup(events_htable, h.ud) IN
       IF msg # NULL
       THEN /\ Submit(heap[msg])
            /\ events_htable' = g_hash_table_remove(events_htable, msg)
            /\ heap' = events_key_destroy(heap, msg)
       ELSE /\ Submit(heap[h.ud])
            /\ UNCHANGED <<events_htable, heap>>
    /\ acquired' = acquired \cup Acquisitions(HeldBy(v), CriticalSection("events_htable_lock", TRUE))
    /\ UNCHANGED <<globals, codes, brk, mem_events_htable, syscall_htable, mutexes,
                   hooks, th, log, ntrans, nalloc, nsys, seen, dropped, last_enter>>

\* as callback_on_insn_exec, but the record stays registered when the sender
\* has failed
insn_exec_failed_keeps(v, h) ==
    /\ phase = "running" /\ th[v] = Idle
    /\ h \in hooks /\ h.cb = "insn_exec"
    /\ events_htable_lock = {}
    /\ LET msg == g_hash_table_lookup(events_htable, h.ud) IN
       IF msg # NULL
       THEN /\ Submit(heap[msg])
            /\ events_htable' = IF snd.failed THEN events_htable
                                 ELSE g_hash_table_remove(events_htable, msg)
            /\ heap' = IF snd.failed THEN heap ELSE events_key_destroy(heap, msg)
       ELSE UNCHANGED <<stream, events_htable, heap>>
    /\ acquired' = acquired \cup Acquisitions(HeldBy(v), CriticalSection("events_htable_lock",
                          g_hash_table_lookup(events_htable, h.ud) # NULL))
    /\ UNCHANGED <<globals, codes, brk, mem_events_htable, syscall_htable, mutexes,
                   hooks, th, log, ntrans, nalloc, nsys, seen, dropped, last_enter>>

callback_on_insn_exec(v, h) ==
    /\ phase = "running" /\ th[v] = Idle
    /\ h \in hooks /\ h.cb = "insn_exec"
    /\ events_htable_lock = {}
    /\ LET msg == g_hash_table_lookup(events_htable, h.ud) IN
       IF msg # NULL
       THEN /\ Submit(heap[msg])
            /\ events_htable' = g_hash_table_remove(events_htable, msg)
            /\ heap' = events_key_destroy(heap, msg)
       ELSE UNCHANGED <<stream, events_htable, heap>>
    /\ acquired' = acquired \cup Acquisitions(HeldBy(v), CriticalSection("events_htable_lock",
                          g_hash_table_lookup(events_htable, h.ud) # NULL))
    /\ UNCHANGED <<globals, codes, brk, mem_events_htable, syscall_htable, mutexes,
                   hooks, th, log, ntrans, nalloc, nsys, seen, dropped, last_enter>>

----------------------------------------------------------------------------
(* callback_on_insn_exec_mem: the execute hook of a memory record *)

\* history: the flag-setting callback `what' has found the record
Observe(s, what) ==
    IF \E k \in DOMAIN s : s[k] = what THEN s ELSE Append(s, what)

\* as MemReady, but one of the two callbacks is enough
MemReadyEither(wrapper) == wrapper.mem \/ wrapper.exec

\* as MemReady, but a record is never found ready
MemReadyNever(wrapper) == FALSE

\* if (msg->mem && msg->exec)
MemReady(wrapper) == wrapper.mem /\ wrapper.exec

callback_on_insn_exec_mem(v, h) ==
    /\ phase = "running" /\ th[v] = Idle
    /\ h \in hooks /\ h.cb = "insn_exec_mem"
    /\ mem_events_htable_lock = {}
    /\ LET msg == g_hash_table_lookup(mem_events_htable, h.ud) IN
       IF msg # NULL
       THEN LET h1 == [heap EXCEPT ![msg].exec = TRUE] IN
            /\ seen' = [seen EXCEPT ![heap[msg].id] = Observe(@, "exec")]
            /\ IF MemReady(h1[msg])
               THEN /\ Submit(h1[h1[msg].msg])
                    /\ mem_events_htable' = g_hash_table_remove(mem_events_htable, msg)
                    /\ heap' = mem_events_key_destroy(Free(h1, h1[msg].msg), msg)
                    /\ acquired' = acquired \cup Acquisitions(HeldBy(v),
                                      CriticalSection("mem_events_htable_lock", TRUE))
               ELSE /\ heap' = h1
                    /\ UNCHANGED <<stream, mem_events_htable>>
                    /\ acquired' = acquired \cup Acquisitions(HeldBy(v),
                                      CriticalSection("mem_events_htable_lock", FALSE))
       ELSE /\ acquired' = acquired \cup Acquisitions(HeldBy(v),
                         CriticalSection("mem_events_htable_lock", FALSE))
            /\ UNCHANGED <<stream, mem_events_htable, heap, seen>>
    /\ UNCHANGED <<globals, codes, brk, events_htable, syscall_htable, mutexes,
                   hooks, th, log, ntrans, nalloc, nsys, dropped, last_enter>>

----------------------------------------------------------------------------
(* callback_on_mem_access: the memory hook of a memory record *)

\* the access kinds the host fires a memory hook for, by the mask given when
\* the hook was registered
MemKinds(rw) ==
    IF rw = "QEMU_PLUGIN_MEM_R" THEN {FALSE}
    ELSE IF rw = "QEMU_PLUGIN_MEM_W" THEN {TRUE}
    ELSE BOOLEAN

\* as SetMemAccess, but only the flag is set: the access itself is not stored
SetMemAccessFlagOnly(h, msg, vaddr, is_store) ==
    [h EXCEPT ![msg].mem = TRUE]

\* as SetMemAccess, but the wrapper's exec flag is reset
SetMemAccessClearsExec(h, msg, vaddr, is_store) ==
    [h EXCEPT ![msg].mem = TRUE,
              ![msg].exec = FALSE,
              ![h[msg].msg].addr = vaddr,
              ![h[msg].msg].is_write = is_store]

\* msg->mem = true; msg->msg->event.mem_access.addr = vaddr; ...is_write = is_store
SetMemAccess(h, msg, vaddr, is_store) ==
    [h EXCEPT ![msg].mem = TRUE,
              ![h[msg].msg].addr = vaddr,
              ![h[msg].msg].is_write = is_store]

\* as callback_on_mem_access, but the event is freed as soon as the access is
\* recorded, ready or not
mem_access_frees_early(v, h, vaddr, is_store) ==
    /\ phase = "running" /\ th[v] = Idle
    /\ h \in hooks /\ h.cb = "mem_access"
    /\ is_store \in MemKinds(h.rw)
    /\ mem_events_htable_lock = {}
    /\ LET msg == g_hash_table_lookup(mem_events_htable, h.ud) IN
       IF msg # NULL
       THEN LET h1 == SetMemAccess(heap, msg, vaddr, is_store) IN
            /\ seen' = [seen EXCEPT ![heap[msg].id] = Observe(@, "mem")]
            /\ IF MemReady(h1[msg])
               THEN /\ Submit(h1[h1[msg].msg])
                    /\ mem_events_htable' = g_hash_table_remove(mem_events_htable, msg)
                    /\ heap' = mem_events_key_destroy(Free(h1, h1[msg].msg), msg)
                    /\ acquired' = acquired \cup Acquisitions(HeldBy(v),
                                      CriticalSection("mem_events_htable_lock", TRUE))
               ELSE /\ heap' = Free(h1, h1[msg].msg)
                    /\ UNCHANGED <<stream, mem_events_htable>>
                    /\ acquired' = acquired \cup Acquisitions(HeldBy(v),
                                      CriticalSection("mem_events_htable_lock", FALSE))
       ELSE /\ acquired' = acquired \cup Acquisitions(HeldBy(v),
                         CriticalSection("mem_events_htable_lock", FALSE))
            /\ UNCHANGED <<stream, mem_events_htable, heap, seen>>
    /\ UNCHANGED <<globals, codes, brk, events_htable, syscall_htable, mutexes,
                   hooks, th, log, ntrans, nalloc, nsys, dropped, last_enter>>

callback_on_mem_access(v, h, vaddr, is_store) ==
    /\ phase = "running" /\ th[v] = Idle
    /\ h \in hooks /\ h.cb = "mem_access"
    /\ is_store \in MemKinds(h.rw)
    /\ mem_events_htable_lock = {}
    /\ LET msg == g_hash_table_lookup(mem_events_htable, h.ud) IN
       IF msg # NULL
       THEN LET h1 == SetMemAccess(heap, msg, vaddr, is_store) IN
            /\ seen' = [seen EXCEPT ![heap[msg].id] = Observe(@, "mem")]
            /\ IF MemReady(h1[msg])
               THEN /\ Submit(h1[h1[msg].msg])
                    /\ mem_events_htable' = g_hash_table_remove(mem_events_htable, msg)
                    /\ heap' = mem_events_key_destroy(Free(h1, h1[msg].msg), msg)
                    /\ acquired' = acquired \cup Acquisitions(HeldBy(v),
                                      CriticalSection("mem_events_htable_lock", TRUE))
               ELSE /\ heap' = h1
                    /\ UNCHANGED <<stream, mem_events_htable>>
                    /\ acquired' = acquired \cup Acquisitions(HeldBy(v),
                                      CriticalSection("mem_events_htable_lock", FALSE))
       ELSE /\ acquired' = acquired \cup Acquisitions(HeldBy(v),
                         CriticalSection("mem_events_htable_lock", FALSE))
            /\ UNCHANGED <<stream, mem_events_htable, heap, seen>>
    /\ UNCHANGED <<globals, codes, brk, events_htable, syscall_htable, mutexes,
                   hooks, th, log, ntrans, nalloc, nsys, dropped, last_enter>>

----------------------------------------------------------------------------
(* callback_on_tb_trans: the Load event, then one record per configured    *)
(* feature for each instruction of the block.  The thread's k counts the   *)
(* records made so far; Work is what the loop makes in all.                *)

Feats(f) ==
    SelectSeq(<<"pc", "instr", "mem">>,
              LAMBDA x : \/ (x = "pc" /\ PC(f))
                         \/ (x = "instr" /\ INSTRS(f))
                         \/ (x = "mem" /\ READS_WRITES(f)))

\* as LoopStart, but the loop starts at the last instruction whenever BRANCHES
\* is configured
LoopStartBranches(f, num_insns) == IF BRANCHES(f) THEN num_insns - 1 ELSE 0

\* for (i = BRANCHONLY(flags) ? num_insns - 1 : 0; i < num_insns; i++)
LoopStart(f, num_insns) == IF BRANCHONLY(f) THEN num_insns - 1 ELSE 0
Work(f, num_insns) == (num_insns - LoopStart(f, num_insns)) * Len(Feats(f))
WorkInsn(f, num_insns, k) == LoopStart(f, num_insns) + ((k - 1) \div Len(Feats(f)))
WorkFeat(f, k) == Feats(f)[((k - 1) % Len(Feats(f))) + 1]
\* the allocations of the loop: newmemaccess makes two, newpc and newinstr one
Allocs(f, num_insns) ==
    (num_insns - LoopStart(f, num_insns))
        * (Len(Feats(f)) + IF READS_WRITES(f) THEN 1 ELSE 0)

\* the host calls the translation callback; the callback tests start_code
tb_trans_enter(v, num_insns, vaddr) ==
    /\ phase = "running" /\ tb_trans_cb /\ th[v] = Idle
    /\ ntrans < MaxTrans
    /\ (nalloc - nsys) + Allocs(flags, num_insns) <= MaxAlloc
    /\ nsys > 0 => ntrans + 1 + nalloc + Allocs(flags, num_insns) <= MaxMixed
    /\ ntrans' = ntrans + 1
    /\ nalloc' = nalloc + Allocs(flags, num_insns)
    /\ seen' = seen \o [j \in 1..Allocs(flags, num_insns) |-> <<>>]
    /\ th' = [th EXCEPT ![v] =
                [pc |-> IF start_code = 0 THEN "tb_set_codes" ELSE "tb_loop",
                 num_insns |-> num_insns, vaddr |-> vaddr,
                 k |-> 0, id |-> nalloc + 1, hooks |-> {}]]
    /\ UNCHANGED <<globals, codes, heap, brk, tables, locks, hooks, stream, log,
                   nsys, dropped, last_enter>>

\* start_code = qemu_plugin_start_code(); end_code = ...; entry_code = ...
tb_set_codes(v) ==
    /\ th[v].pc = "tb_set_codes"
    /\ start_code' = host.start
    /\ end_code' = host.end
    /\ entry_code' = host.entry
    /\ th' = [th EXCEPT ![v].pc = "tb_load"]
    /\ UNCHANGED <<globals, heap, brk, tables, locks, hooks, stream, log, ntrans,
                   nalloc, nsys, seen, dropped, last_enter>>

\* as tb_submit_load, but SETLOAD is applied to the static flags as well
tb_submit_load_sets_flags(v) ==
    /\ th[v].pc = "tb_load"
    /\ Submit(newload(start_code, end_code, entry_code, 7))
    /\ flags' = flags \cup EventFlags_LOAD
    /\ th' = [th EXCEPT ![v].pc = "tb_loop"]
    /\ acquired' = acquired \cup Acquisitions(HeldBy(v), submit_mutexes)
    /\ UNCHANGED <<phase, host, batch_size, outside, tb_trans_cb, syscall_cb, syscall_ret_cb, atexit_cb,
                   sender, rv, ran, codes, heap, brk, tables, mutexes, hooks, log,
                   ntrans, nalloc, nsys, seen, dropped, last_enter>>

\* load_msg = newload(start_code, end_code, entry_code, 0x7); submit; free
tb_submit_load(v) ==
    /\ th[v].pc = "tb_load"
    /\ Submit(newload(start_code, end_code, entry_code, 7))
    /\ th' = [th EXCEPT ![v].pc = "tb_loop"]
    /\ acquired' = acquired \cup Acquisitions(HeldBy(v), submit_mutexes)
    /\ UNCHANGED <<globals, codes, heap, brk, tables, mutexes, hooks, log, ntrans,
                   nalloc, nsys, seen, dropped, last_enter>>

\* pc_msg = newpc(pc, i == num_insns - 1), and the execute hook attached to it
newpc(v, a) ==
    /\ th[v].pc = "tb_loop" /\ th[v].k < Work(flags, th[v].num_insns)
    /\ WorkFeat(flags, th[v].k + 1) = "pc"
    /\ a \in Calloc(heap, brk)
    /\ events_htable_lock = {}
    /\ LET i == WorkInsn(flags, th[v].num_insns, th[v].k + 1)
           id == th[v].id IN
       /\ heap' = [heap EXCEPT ![a] = PcEvent(InsnVaddr(th[v].vaddr, i),
                                              i = th[v].num_insns - 1, id)]
       /\ th' = [th EXCEPT ![v].k = @ + 1, ![v].id = @ + 1,
                           ![v].hooks = @ \cup {[cb |-> "insn_exec", ud |-> a,
                                                 rid |-> id, tag |-> "Pc",
                                                 pc |-> InsnVaddr(th[v].vaddr, i)]}]
    /\ brk' = Bump(brk, a)
    /\ events_htable' = g_hash_table_insert(events_htable, a, a)
    /\ acquired' = acquired \cup Acquisitions(HeldBy(v), CriticalSection("events_htable_lock", FALSE))
    /\ UNCHANGED <<globals, codes, mem_events_htable, syscall_htable, mutexes,
                   hooks, stream, log, ntrans, nalloc, nsys, seen, dropped, last_enter>>

\* instr_msg = newinstr(pc, data, size), and the execute hook attached to it
newinstr(v, a, size) ==
    /\ th[v].pc = "tb_loop" /\ th[v].k < Work(flags, th[v].num_insns)
    /\ WorkFeat(flags, th[v].k + 1) = "instr"
    /\ a \in Calloc(heap, brk)
    /\ events_htable_lock = {}
    /\ LET i == WorkInsn(flags, th[v].num_insns, th[v].k + 1)
           id == th[v].id IN
       /\ heap' = [heap EXCEPT ![a] = InstrEvent(InsnVaddr(th[v].vaddr, i),
                                                 InsnData(size), size, id)]
       /\ th' = [th EXCEPT ![v].k = @ + 1, ![v].id = @ + 1,
                           ![v].hooks = @ \cup {[cb |-> "insn_exec", ud |-> a,
                                                 rid |-> id, tag |-> "Instr",
                                                 pc |-> InsnVaddr(th[v].vaddr, i)]}]
    /\ brk' = Bump(brk, a)
    /\ events_htable' = g_hash_table_insert(events_htable, a, a)
    /\ acquired' = acquired \cup Acquisitions(HeldBy(v), CriticalSection("events_htable_lock", FALSE))
    /\ UNCHANGED <<globals, codes, mem_events_htable, syscall_htable, mutexes,
                   hooks, stream, log, ntrans, nalloc, nsys, seen, dropped, last_enter>>

\* instr_msg = newmemaccess(pc, 0, false): the event and its wrapper, and the
\* memory hook and the execute hook attached to the wrapper
newmemaccess(v, a, w) ==
    /\ th[v].pc = "tb_loop" /\ th[v].k < Work(flags, th[v].num_insns)
    /\ WorkFeat(flags, th[v].k + 1) = "mem"
    /\ a \in Calloc(heap, brk)
    /\ mem_events_htable_lock = {}
    /\ LET i == WorkInsn(flags, th[v].num_insns, th[v].k + 1)
           id == th[v].id
           h1 == [heap EXCEPT ![a] = MemAccessEvent(InsnVaddr(th[v].vaddr, i), 0,
                                                    FALSE, id)]
           b1 == Bump(brk, a) IN
       /\ w \in Calloc(h1, b1)
       /\ heap' = [h1 EXCEPT ![w] = MemWrapper(a, id)]
       /\ brk' = Bump(b1, w)
       /\ th' = [th EXCEPT ![v].k = @ + 1, ![v].id = @ + 2,
                           ![v].hooks = @ \cup
                               {[cb |-> "mem_access", ud |-> w, rid |-> id, tag |-> "MemAccess",
                                 pc |-> InsnVaddr(th[v].vaddr, i),
                                 rw |-> "QEMU_PLUGIN_MEM_R"],
                                [cb |-> "insn_exec_mem", ud |-> w, rid |-> id, tag |-> "MemAccess",
                                 pc |-> InsnVaddr(th[v].vaddr, i)]}]
    /\ mem_events_htable' = g_hash_table_insert(mem_events_htable, w, w)
    /\ acquired' = acquired \cup Acquisitions(HeldBy(v), CriticalSection("mem_events_htable_lock", FALSE))
    /\ UNCHANGED <<globals, codes, events_htable, syscall_htable, mutexes,
                   hooks, stream, log, ntrans, nalloc, nsys, seen, dropped, last_enter>>

\* the loop is over: the block, with the hooks attached to it, can now execute
tb_trans_return(v) ==
    /\ th[v].pc = "tb_loop" /\ th[v].k = Work(flags, th[v].num_insns)
    /\ hooks' = hooks \cup th[v].hooks
    /\ th' = [th EXCEPT ![v] = Idle]
    /\ UNCHANGED <<globals, codes, heap, brk, tables, locks, stream, log, ntrans,
                   nalloc, nsys, seen, dropped, last_enter>>

----------------------------------------------------------------------------
(* callback_on_syscall: newsyscall installs the record of the vCPU;        *)
(* g_hash_table_replace frees the value it replaces                        *)

\* as newsyscall, but an entry the vCPU already has stays and the new record
\* is not installed
newsyscall_keep_old(v, num, args, a) ==
    /\ phase = "running" /\ syscall_cb /\ th[v] = Idle
    /\ nsys < MaxSys
    /\ ntrans > 0 => ntrans + nalloc + 1 <= MaxMixed
    /\ a \in Calloc(heap, brk)
    /\ syscall_htable_lock = {}
    /\ LET old == g_hash_table_lookup(syscall_htable, v)
           h1 == [heap EXCEPT ![a] = SyscallEvent(num, args, nalloc + 1)] IN
       /\ syscall_htable' = IF old # NULL THEN syscall_htable
                            ELSE g_hash_table_replace(syscall_htable, v, a)
       /\ heap' = h1
       /\ dropped' = dropped
    /\ brk' = Bump(brk, a)
    /\ nalloc' = nalloc + 1
    /\ nsys' = nsys + 1
    /\ seen' = Append(seen, <<>>)
    /\ last_enter' = [last_enter EXCEPT ![v] = [num |-> num, args |-> args]]
    /\ acquired' = acquired \cup Acquisitions(HeldBy(v), CriticalSection("syscall_htable_lock", FALSE))
    /\ UNCHANGED <<globals, codes, events_htable, mem_events_htable, mutexes,
                   hooks, th, stream, log, ntrans>>

newsyscall(v, num, args, a) ==
    /\ phase = "running" /\ syscall_cb /\ th[v] = Idle
    /\ nsys < MaxSys
    /\ ntrans > 0 => ntrans + nalloc + 1 <= MaxMixed
    /\ a \in Calloc(heap, brk)
    /\ syscall_htable_lock = {}
    /\ LET old == g_hash_table_lookup(syscall_htable, v)
           h1 == [heap EXCEPT ![a] = SyscallEvent(num, args, nalloc + 1)] IN
       /\ syscall_htable' = g_hash_table_replace(syscall_htable, v, a)
       /\ heap' = IF old # NULL THEN syscall_value_destroy(h1, old) ELSE h1
       /\ dropped' = IF old # NULL THEN dropped \cup {heap[old].id} ELSE dropped
    /\ brk' = Bump(brk, a)
    /\ nalloc' = nalloc + 1
    /\ nsys' = nsys + 1
    /\ seen' = Append(seen, <<>>)
    /\ last_enter' = [last_enter EXCEPT ![v] = [num |-> num, args |-> args]]
    /\ acquired' = acquired \cup Acquisitions(HeldBy(v), CriticalSection("syscall_htable_lock", FALSE))
    /\ UNCHANGED <<globals, codes, events_htable, mem_events_htable, mutexes,
                   hooks, th, stream, log, ntrans>>

----------------------------------------------------------------------------
(* callback_after_syscall *)

\* as SetRv, but the placeholder stays
SetRvNot(h, evt, ret) == h

\* evt->event.syscall.rv = ret
SetRv(h, evt, ret) == [h EXCEPT ![evt].rv = ret]

\* as SyscallHit, but the entry of the vCPU is taken whatever its num
SyscallHitAny(h, evt, num) == evt # NULL

\* if (evt && evt->event.syscall.num == num)
SyscallHit(h, evt, num) == evt # NULL /\ h[evt].num = num

\* as callback_after_syscall, but a return that finds no entry makes an event
\* of its own and submits it
after_syscall_synthesize(v, num, ret) ==
    /\ phase = "running" /\ syscall_ret_cb /\ th[v] = Idle
    /\ syscall_htable_lock = {}
    /\ LET evt == g_hash_table_lookup(syscall_htable, v)
           hit == SyscallHit(heap, evt, num)
           h1 == IF hit THEN SetRv(heap, evt, ret) ELSE heap IN
       /\ IF hit THEN Submit(h1[evt])
          ELSE IF evt = NULL
          THEN Submit([tag |-> "Syscall", flags |-> EventFlags_SYSCALLS,
                       num |-> 0, rv |-> ret, args |-> <<>>, id |-> 0])
          ELSE UNCHANGED stream
       /\ syscall_htable' = g_hash_table_remove(syscall_htable, v)
       /\ heap' = IF evt # NULL THEN syscall_value_destroy(h1, evt) ELSE h1
       /\ dropped' = IF evt # NULL /\ ~hit THEN dropped \cup {heap[evt].id}
                     ELSE dropped
    /\ last_enter' = [last_enter EXCEPT ![v] = NoEnter]
    /\ acquired' = acquired \cup Acquisitions(HeldBy(v), CriticalSection("syscall_htable_lock",
                          g_hash_table_lookup(syscall_htable, v) = NULL
                          \/ SyscallHit(heap, g_hash_table_lookup(syscall_htable, v), num)))
    /\ UNCHANGED <<globals, codes, brk, events_htable, mem_events_htable, mutexes,
                   hooks, th, log, ntrans, nalloc, nsys, seen>>

\* as callback_after_syscall, but the mutex is released before submit is called
after_syscall_submit_unlocked(v, num, ret) ==
    /\ phase = "running" /\ syscall_ret_cb /\ th[v] = Idle
    /\ syscall_htable_lock = {}
    /\ LET evt == g_hash_table_lookup(syscall_htable, v)
           hit == SyscallHit(heap, evt, num)
           h1 == IF hit THEN SetRv(heap, evt, ret) ELSE heap IN
       /\ IF hit THEN Submit(h1[evt]) ELSE UNCHANGED stream
       /\ syscall_htable' = g_hash_table_remove(syscall_htable, v)
       /\ heap' = IF evt # NULL THEN syscall_value_destroy(h1, evt) ELSE h1
       /\ dropped' = IF evt # NULL /\ ~hit THEN dropped \cup {heap[evt].id}
                     ELSE dropped
       /\ acquired' = acquired \cup Acquisitions(HeldBy(v),
                          CriticalSection("syscall_htable_lock", FALSE)
                          \o (IF hit THEN submit_mutexes ELSE <<>>))
    /\ last_enter' = [last_enter EXCEPT ![v] = NoEnter]
    /\ UNCHANGED <<globals, codes, brk, events_htable, mem_events_htable, mutexes,
                   hooks, th, log, ntrans, nalloc, nsys, seen>>

\* as callback_after_syscall, but the entries of all vCPUs are removed
after_syscall_remove_all(v, num, ret) ==
    /\ phase = "running" /\ syscall_ret_cb /\ th[v] = Idle
    /\ syscall_htable_lock = {}
    /\ LET evt == g_hash_table_lookup(syscall_htable, v)
           hit == SyscallHit(heap, evt, num)
           h1 == IF hit THEN SetRv(heap, evt, ret) ELSE heap IN
       /\ IF hit THEN Submit(h1[evt]) ELSE UNCHANGED stream
       /\ syscall_htable' = {}
       /\ heap' = [x \in Addr |-> IF \E e \in syscall_htable : e.value = x
                                  THEN FreeCell ELSE h1[x]]
       /\ dropped' = IF evt # NULL /\ ~hit THEN dropped \cup {heap[evt].id}
                     ELSE dropped
    /\ last_enter' = [last_enter EXCEPT ![v] = NoEnter]
    /\ acquired' = acquired \cup Acquisitions(HeldBy(v), CriticalSection("syscall_htable_lock",
                          SyscallHit(heap, g_hash_table_lookup(syscall_htable, v), num)))
    /\ UNCHANGED <<globals, codes, brk, events_htable, mem_events_htable, mutexes,
                   hooks, th, log, ntrans, nalloc, nsys, seen>>

callback_after_syscall(v, num, ret) ==
    /\ phase = "running" /\ syscall_ret_cb /\ th[v] = Idle
    /\ syscall_htable_lock = {}
    /\ LET evt == g_hash_table_lookup(syscall_htable, v)
           hit == SyscallHit(heap, evt, num)
           h1 == IF hit THEN SetRv(heap, evt, ret) ELSE heap IN
       /\ IF hit THEN Submit(h1[evt]) ELSE UNCHANGED stream
       /\ syscall_htable' = g_hash_table_remove(syscall_htable, v)
       /\ heap' = IF evt # NULL THEN syscall_value_destroy(h1, evt) ELSE h1
       /\ dropped' = IF evt # NULL /\ ~hit THEN dropped \cup {heap[evt].id}
                     ELSE dropped
    /\ last_enter' = [last_enter EXCEPT ![v] = NoEnter]
    /\ acquired' = acquired \cup Acquisitions(HeldBy(v), CriticalSection("syscall_htable_lock",
                          SyscallHit(heap, g_hash_table_lookup(syscall_htable, v), num)))
    /\ UNCHANGED <<globals, codes, brk, events_htable, mem_events_htable, mutexes,
                   hooks, th, log, ntrans, nalloc, nsys, seen>>

----------------------------------------------------------------------------
(* callback_atexit: the host runs it once, when the guest exits *)

\* as callback_atexit, but the socket is closed without calling teardown
callback_atexit_close_only(v) ==
    /\ phase = "running" /\ atexit_cb /\ sender = "live"
    /\ log' = log_info(log, "VCPU exited, sending exit event.")
    /\ sender' = teardown(sender)
    /\ snd' = [snd EXCEPT !.sock = "closed"]
    /\ UNCHANGED <<phase, flags, host, batch_size, outside, tb_trans_cb, syscall_cb, syscall_ret_cb,
                   atexit_cb, rv, ran, codes, heap, brk, tables, locks, hooks, th,
                   sent, ntrans, nalloc, nsys, seen, dropped, last_enter>>

callback_atexit(v) ==
    /\ phase = "running" /\ atexit_cb /\ sender = "live"
    /\ log' = log_info(log, "VCPU exited, sending exit event.")
    /\ sender' = teardown(sender)
    /\ snd' = sender_teardown(snd)
    /\ UNCHANGED <<phase, flags, host, batch_size, outside, tb_trans_cb, syscall_cb, syscall_ret_cb,
                   atexit_cb, rv, ran, codes, heap, brk, tables, locks, hooks, th,
                   sent, ntrans, nalloc, nsys, seen, dropped, last_enter>>

----------------------------------------------------------------------------
InsnExec == \E v \in Vcpu, h \in hooks : callback_on_insn_exec(v, h)
InsnExecMem == \E v \in Vcpu, h \in hooks : callback_on_insn_exec_mem(v, h)
MemAccess ==
    \E v \in Vcpu, h \in hooks, vaddr \in MemVaddrs, is_store \in BOOLEAN :
        callback_on_mem_access(v, h, vaddr, is_store)
TbTrans ==
    \E v \in Vcpu :
        \/ \E n \in 1..MaxInsns, vaddr \in TbVaddrs : tb_trans_enter(v, n, vaddr)
        \/ tb_set_codes(v)
        \/ tb_submit_load(v)
        \/ \E a \in Addr : newpc(v, a)
        \/ \E a \in Addr, size \in InsnSizes : newinstr(v, a, size)
        \/ \E a, w \in Addr : newmemaccess(v, a, w)
        \/ tb_trans_return(v)
SyscallEnter ==
    \E v \in Vcpu, num \in SysNums, args \in SysArgs, a \in Addr :
        newsyscall(v, num, args, a)
SyscallReturn ==
    \E v \in Vcpu, num \in SysNums, ret \in SysRets : callback_after_syscall(v, num, ret)
AtExit == \E v \in Vcpu : callback_atexit(v)

Next ==
    \/ Install
    \/ TbTrans
    \/ InsnExec
    \/ InsnExecMem
    \/ MemAccess
    \/ SyscallEnter
    \/ SyscallReturn
    \/ AtExit

Spec == Init /\ [][Next]_vars

\* a thread that has entered callback_on_tb_trans runs it to its return; when
\* the guest executes an instruction or makes a syscall is up to the guest
TbProgress(v) ==
    \/ tb_set_codes(v)
    \/ tb_submit_load(v)
    \/ \E a \in Addr : newpc(v, a)
    \/ \E a \in Addr, size \in InsnSizes : newinstr(v, a, size)
    \/ \E a, w \in Addr : newmemaccess(v, a, w)
    \/ tb_trans_return(v)

FairSpec == Spec /\ \A v \in Vcpu : WF_vars(TbProgress(v))

----------------------------------------------------------------------------
(* Faults of the environment.  Spec is the plugin on a host where calloc   *)
(* succeeds and no instruction is longer than the opcode field; FaultSpec  *)
(* adds the runs in which a calloc of a callback returns NULL or the host  *)
(* reports a longer instruction.  No caller tests the pointer of calloc:   *)
(* the next statement stores through it (SETPC(evt->flags), wrapper->msg = *)
(* evt, ...), and the store to the null page ends the process with         *)
(* SIGSEGV, all threads with it.  newinstr does not test the size: memcpy  *)
(* writes past the opcode field, after which the process goes on with the  *)
(* bytes it copied or is killed.                                           *)

Crashed == [pc |-> "crashed"]

\* the calloc of newload, newpc, newinstr, newmemaccess or newsyscall returns
\* NULL, and the function writes the fields of the record through it
calloc_fails(v, fn) ==
    /\ phase = "running"
    /\ \/ fn = "newload" /\ th[v].pc = "tb_load"
       \/ /\ fn \in {"newpc", "newinstr", "newmemaccess"}
          /\ th[v].pc = "tb_loop" /\ th[v].k < Work(flags, th[v].num_insns)
          /\ WorkFeat(flags, th[v].k + 1)
                = (CASE fn = "newpc" -> "pc" [] fn = "newinstr" -> "instr"
                     [] OTHER -> "mem")
       \/ fn = "newsyscall" /\ th[v] = Idle /\ syscall_cb
    /\ phase' = "crashed"
    /\ th' = [u \in Vcpu |-> Crashed]
    /\ UNCHANGED <<flags, host, batch_size, outside, tb_trans_cb, syscall_cb, syscall_ret_cb, atexit_cb,
                   sender, rv, ran, codes, heap, brk, tables, locks, hooks, stream,
                   log, ntrans, nalloc, nsys, seen, dropped, last_enter>>

AllocSites == {"newload", "newpc", "newinstr", "newmemaccess", "newsyscall"}
AllocFail == \E v \in Vcpu, fn \in AllocSites : calloc_fails(v, fn)

\* instruction sizes above the capacity of the opcode field
WideInsnSizes == {MAX_OPCODE_SIZE + 1}

\* the memcpy of newinstr, past the end of the field, hits memory whose
\* corruption kills the process
newinstr_overflow_crash(v, size) ==
    /\ phase = "running"
    /\ size > MAX_OPCODE_SIZE
    /\ th[v].pc = "tb_loop" /\ th[v].k < Work(flags, th[v].num_insns)
    /\ WorkFeat(flags, th[v].k + 1) = "instr"
    /\ phase' = "crashed"
    /\ th' = [u \in Vcpu |-> Crashed]
    /\ UNCHANGED <<flags, host, batch_size, outside, tb_trans_cb, syscall_cb, syscall_ret_cb, atexit_cb,
                   sender, rv, ran, codes, heap, brk, tables, locks, hooks, stream,
                   log, ntrans, nalloc, nsys, seen, dropped, last_enter>>

WideInsn ==
    \E v \in Vcpu, size \in WideInsnSizes :
        \/ \E a \in Addr : newinstr(v, a, size)
        \/ newinstr_overflow_crash(v, size)

FaultNext == Next \/ AllocFail \/ WideInsn
FaultSpec == Init /\ [][FaultNext]_vars
FaultFairSpec == FaultSpec /\ \A v \in Vcpu : WF_vars(TbProgress(v))

----------------------------------------------------------------------------
(* The sender with batches that fill: the plugin built with a small        *)
(* BATCH_SIZE, and a consumer that can go away, after which every write on *)
(* the socket fails.                                                       *)
MaxBatch == 2

\* the consumer closes its end of the socket
socket_breaks ==
    /\ phase = "running"
    /\ snd.sock = "open"
    /\ snd' = [snd EXCEPT !.sock = "broken"]
    /\ UNCHANGED <<globals, codes, heap, brk, tables, locks, hooks, th, sent, log,
                   ntrans, nalloc, nsys, seen, dropped, last_enter>>

SenderInit == InitWith(MaxBatch)
SenderNext == Next \/ socket_breaks
SenderSpec == SenderInit /\ [][SenderNext]_vars

----------------------------------------------------------------------------
(* The single-table plugin of src/src/callback.c: one table exec_htable of  *)
(* the events in progress, keyed by the event's address, and one pointer    *)
(* syscall_evt for the syscall under way. event_still_active, the writes of *)
(* callback_on_mem_access and check_and_submit are separate steps of a      *)
(* callback: exec_htable_lock is held inside event_still_active and inside  *)
(* check_and_submit only. The syscall callbacks hold syscall_evt_lock from  *)
(* their first statement to their last and are single steps.                *)

\* the variables of the three-mapping plugin that the single-table plugin
\* does not have
single_frame == <<host, batch_size, cmdline, codes, tables, locks, ran, dropped>>
single_config == <<phase, flags, tb_trans_cb, syscall_cb, syscall_ret_cb, atexit_cb, sender, rv>>

EventFlags_FINISHED == {"FINISHED"}
ZeroArgs == <<0, 0, 0, 0, 0, 0, 0, 0>>

\* calloc(1, sizeof(QemuEventExec)); id is history
QemuEventExec(id) ==
    [tag |-> "Exec", flags |-> {}, pc |-> 0, branch |-> FALSE, opcode_size |-> 0,
     read |-> 0, write |-> 0, num |-> 0, rv |-> 0, args |-> ZeroArgs, id |-> id]

\* #define READY(f, g)
READY(f, g) == (f \ EventFlags_SYSCALLS) = (g \ EventFlags_SYSCALLS)

g_hash_table_contains(t, k) == HasKey(t, k)

\* the access a thread makes through its event pointer finds the memory
\* freed, or given to a later record
Stale(v) == heap[th[v].event] = FreeCell \/ heap[th[v].event].id # th[v].rid
StaleAccess(v, op, by) ==
    IF Stale(v) THEN stale \cup {[op |-> op, by |-> by]} ELSE stale

\* the process dies
single_crash ==
    /\ phase' = "crashed"
    /\ th' = [u \in Vcpu |-> Crashed]

single_callback_init(trace_pc, trace_read, trace_write, trace_instr, trace_syscall, trace_branch, setup_ok) ==
    /\ phase = "uninit"
    /\ flags' = SETFLAGS(flags, trace_pc, trace_read \/ trace_write, trace_instr,
                         trace_syscall, trace_branch)
    /\ IF ~setup_ok
       THEN /\ phase' = "failed"
            /\ rv' = "SenderInitError"
            /\ log' = log_error(log, "Failed to setup sender.")
            /\ UNCHANGED <<sender, snd, tb_trans_cb, syscall_cb, syscall_ret_cb, atexit_cb>>
       ELSE /\ phase' = "running"
            /\ rv' = "Success"
            /\ sender' = setup
            /\ snd' = sender_setup(batch_size)
            /\ tb_trans_cb' = ~NOINSN(flags')
            /\ syscall_cb' = SYSCALLS(flags')
            /\ syscall_ret_cb' = SYSCALLS(flags')
            /\ atexit_cb' = TRUE
            /\ log' = log_info(log, "Initialized plugin callbacks.")
    /\ UNCHANGED <<single_frame, seen, outside, heap, brk, hooks, th, sent, ntrans, nalloc,
                   nsys, last_enter>>

\* event_still_active(event)
event_still_active(event) == g_hash_table_contains(exec_htable, event)

\* callback_on_insn_exec up to the return of event_still_active
single_callback_on_insn_exec(v, h) ==
    /\ phase = "running" /\ th[v] = Idle
    /\ h \in hooks /\ h.cb = "single_insn_exec"
    /\ th' = IF event_still_active(h.ud)
             THEN [th EXCEPT ![v] = [pc |-> "check_and_submit", event |-> h.ud,
                                     rid |-> h.rid, from |-> "exec"]]
             ELSE th
    /\ seen' = IF event_still_active(h.ud) THEN seen
             ELSE [seen EXCEPT ![h.rid] = Observe(@, "exec")]
    /\ UNCHANGED <<single_frame, single_config, outside, heap, brk, hooks, stream, log,
                   ntrans, nalloc, nsys, last_enter>>

\* callback_on_mem_access up to the return of event_still_active
single_callback_on_mem_access(v, h, vaddr, is_store) ==
    /\ phase = "running" /\ th[v] = Idle
    /\ h \in hooks /\ h.cb = "single_mem_access"
    /\ is_store \in MemKinds(h.rw)
    /\ th' = IF event_still_active(h.ud)
             THEN [th EXCEPT ![v] = [pc |-> "mem_write", event |-> h.ud, rid |-> h.rid,
                                     vaddr |-> vaddr, is_store |-> is_store]]
             ELSE th
    /\ seen' = IF event_still_active(h.ud) THEN seen
             ELSE [seen EXCEPT ![h.rid] = Observe(@, "mem")]
    /\ UNCHANGED <<single_frame, single_config, outside, heap, brk, hooks, stream, log,
                   ntrans, nalloc, nsys, last_enter>>

\* callback_on_mem_access: SETREADS_WRITES(event->flags) and the address,
\* written with no lock held; a write to freed memory is lost or kills the
\* process
single_mem_write(v) ==
    /\ phase = "running" /\ th[v].pc = "mem_write"
    /\ stale' = StaleAccess(v, "write", "callback_on_mem_access")
    /\ LET event == th[v].event
           next == [pc |-> "check_and_submit", event |-> event, rid |-> th[v].rid,
                    from |-> "mem"] IN
       IF heap[event] = FreeCell
       THEN /\ UNCHANGED heap
            /\ \/ th' = [th EXCEPT ![v] = next] /\ UNCHANGED single_config
               \/ single_crash /\ UNCHANGED <<flags, tb_trans_cb, syscall_cb,
                                              syscall_ret_cb, atexit_cb, sender, rv>>
       ELSE /\ heap' = IF th[v].is_store
                       THEN [heap EXCEPT ![event].flags = @ \cup EventFlags_READS_WRITES,
                                         ![event].write = th[v].vaddr]
                       ELSE [heap EXCEPT ![event].flags = @ \cup EventFlags_READS_WRITES,
                                         ![event].read = th[v].vaddr]
            /\ th' = [th EXCEPT ![v] = next]
            /\ UNCHANGED single_config
    /\ UNCHANGED <<single_frame, seen, exec_htable, syscall_evt, brk, hooks, stream, log,
                   ntrans, nalloc, nsys, last_enter>>

\* check_and_submit(event), one critical section of exec_htable_lock; READY
\* reads event->flags before the table is asked, and what it reads from freed
\* memory does not matter, as the table no longer has the key
check_and_submit(v) ==
    /\ phase = "running" /\ th[v].pc = "check_and_submit"
    /\ stale' = StaleAccess(v, "read", "check_and_submit")
    /\ LET event == th[v].event IN
       IF heap[event] # FreeCell /\ READY(flags, heap[event].flags)
          /\ g_hash_table_contains(exec_htable, event)
       THEN /\ exec_htable' = g_hash_table_remove(exec_htable, event)
            /\ Submit(heap[event])
            /\ heap' = Free(heap, event)
       ELSE UNCHANGED <<exec_htable, stream, heap>>
    /\ th' = [th EXCEPT ![v] = Idle]
    /\ seen' = [seen EXCEPT ![th[v].rid] = Observe(@, th[v].from)]
    /\ UNCHANGED <<single_frame, single_config, syscall_evt, brk, hooks, log,
                   ntrans, nalloc, nsys, last_enter>>

\* the events callback_on_tb_trans allocates for a block
SingleAllocs(f, num_insns) == IF BRANCHONLY(f) THEN 1 ELSE num_insns

\* callback_on_tb_trans up to the loop
single_tb_trans_enter(v, num_insns, vaddr) ==
    /\ phase = "running" /\ tb_trans_cb /\ th[v] = Idle
    /\ ntrans < MaxTrans
    /\ (nalloc - nsys) + SingleAllocs(flags, num_insns) <= MaxAlloc
    /\ nsys > 0 => ntrans + 1 + nalloc + SingleAllocs(flags, num_insns) <= MaxMixed
    /\ ntrans' = ntrans + 1
    /\ nalloc' = nalloc + SingleAllocs(flags, num_insns)
    /\ th' = [th EXCEPT ![v] =
                [pc |-> "single_tb_loop", num_insns |-> num_insns, vaddr |-> vaddr,
                 i |-> IF BRANCHONLY(flags) THEN num_insns - 1 ELSE 0,
                 event |-> NULL, rid |-> nalloc + 1, hooks |-> {}]]
    /\ seen' = seen \o [j \in 1..SingleAllocs(flags, num_insns) |-> <<>>]
    /\ UNCHANGED <<single_frame, single_config, outside, heap, brk, hooks, stream, log,
                   nsys, last_enter>>

\* the calloc of the loop body and the insertion of the event
single_tb_alloc(v, a) ==
    /\ phase = "running" /\ th[v].pc = "single_tb_loop"
    /\ th[v].i < th[v].num_insns /\ th[v].event = NULL
    /\ a \in Calloc(heap, brk)
    /\ heap' = [heap EXCEPT ![a] = QemuEventExec(th[v].rid)]
    /\ brk' = Bump(brk, a)
    /\ exec_htable' = g_hash_table_insert(exec_htable, a, a)
    /\ th' = [th EXCEPT ![v].event = a]
    /\ UNCHANGED <<single_frame, seen, single_config, syscall_evt, stale, hooks, stream, log,
                   ntrans, nalloc, nsys, last_enter>>

\* the fields of the event as the loop body sets them
FillEvent(e, f, pc, last, size) ==
    [e EXCEPT !.flags = @ \cup (IF PC(f) THEN EventFlags_PC ELSE {})
                          \cup (IF BRANCHES(f) /\ last THEN EventFlags_BRANCHES ELSE {})
                          \cup (IF INSTRS(f) THEN EventFlags_INSTRS ELSE {}),
              !.pc = IF PC(f) \/ (BRANCHES(f) /\ last) THEN pc ELSE @,
              !.branch = IF BRANCHES(f) /\ last THEN TRUE ELSE @,
              !.opcode_size = IF INSTRS(f) THEN size ELSE @]

\* the rest of the loop body: the fields of the event, written with no lock
\* held after the event was inserted, and the hooks of the instruction
single_tb_fill(v, size) ==
    /\ phase = "running" /\ th[v].pc = "single_tb_loop"
    /\ th[v].event # NULL
    /\ stale' = StaleAccess(v, "write", "callback_on_tb_trans")
    /\ LET event == th[v].event
           pc == InsnVaddr(th[v].vaddr, th[v].i)
           last == (th[v].i = th[v].num_insns - 1)
           next == [th[v] EXCEPT
                      !.i = @ + 1, !.event = NULL, !.rid = @ + 1,
                      !.hooks = @ \cup
                          {[cb |-> "single_insn_exec", ud |-> event, rid |-> th[v].rid,
                            pc |-> pc]}
                          \cup (IF READS_WRITES(flags)
                                THEN {[cb |-> "single_mem_access", ud |-> event,
                                       rid |-> th[v].rid, pc |-> pc,
                                       rw |-> "QEMU_PLUGIN_MEM_R"]}
                                ELSE {})] IN
       IF heap[event] = FreeCell
       THEN /\ UNCHANGED heap
            /\ \/ th' = [th EXCEPT ![v] = next] /\ UNCHANGED single_config
               \/ single_crash /\ UNCHANGED <<flags, tb_trans_cb, syscall_cb,
                                              syscall_ret_cb, atexit_cb, sender, rv>>
       ELSE /\ heap' = [heap EXCEPT ![event] = FillEvent(@, flags, pc, last, size)]
            /\ th' = [th EXCEPT ![v] = next]
            /\ UNCHANGED single_config
    /\ UNCHANGED <<single_frame, seen, exec_htable, syscall_evt, brk, hooks, stream, log,
                   ntrans, nalloc, nsys, last_enter>>

\* the translation callback returns and the hooks of the block go live
single_tb_trans_return(v) ==
    /\ phase = "running" /\ th[v].pc = "single_tb_loop"
    /\ th[v].i = th[v].num_insns /\ th[v].event = NULL
    /\ hooks' = hooks \cup th[v].hooks
    /\ th' = [th EXCEPT ![v] = Idle]
    /\ UNCHANGED <<single_frame, seen, single_config, outside, heap, brk, stream, log,
                   ntrans, nalloc, nsys, last_enter>>

\* callback_on_syscall: the one event is allocated if there is none, and the
\* num and args are written into it
single_callback_on_syscall(v, num, args, a) ==
    /\ phase = "running" /\ syscall_cb /\ th[v] = Idle
    /\ IF syscall_evt = NULL
       THEN /\ nsys < MaxSys
            /\ ntrans > 0 => ntrans + nalloc + 1 <= MaxMixed
            /\ a \in Calloc(heap, brk)
            /\ syscall_evt' = a
            /\ heap' = [heap EXCEPT ![a] = [QemuEventExec(nalloc + 1) EXCEPT
                                              !.num = num, !.args = args]]
            /\ brk' = Bump(brk, a)
            /\ nalloc' = nalloc + 1
            /\ nsys' = nsys + 1
       ELSE /\ a = syscall_evt
            /\ heap' = [heap EXCEPT ![a].num = num, ![a].args = args]
            /\ UNCHANGED <<syscall_evt, brk, nalloc, nsys>>
    /\ last_enter' = [last_enter EXCEPT ![v] = [num |-> num, args |-> args]]
    /\ seen' = IF syscall_evt = NULL THEN Append(seen, <<>>) ELSE seen
    /\ UNCHANGED <<single_frame, single_config, exec_htable, stale, hooks, th, stream,
                   log, ntrans>>

\* callback_after_syscall: with no event an empty one is allocated; on a num
\* mismatch the event is freed; else it is given the rv, submitted and freed
single_callback_after_syscall(v, num, ret, a) ==
    /\ phase = "running" /\ syscall_ret_cb /\ th[v] = Idle
    /\ IF syscall_evt = NULL
       THEN /\ nsys < MaxSys
            /\ ntrans > 0 => ntrans + nalloc + 1 <= MaxMixed
            /\ a \in Calloc(heap, brk)
            /\ Submit([QemuEventExec(nalloc + 1) EXCEPT
                         !.flags = EventFlags_SYSCALLS, !.rv = ret])
            /\ brk' = Bump(brk, a)
            /\ nalloc' = nalloc + 1
            /\ nsys' = nsys + 1
            /\ UNCHANGED <<heap, syscall_evt, log>>
       ELSE /\ a = syscall_evt
            /\ IF heap[a].num # num
               THEN /\ log' = log_error(log, "Syscall number mismatch")
                    /\ UNCHANGED stream
               ELSE /\ Submit([heap[a] EXCEPT !.flags = @ \cup EventFlags_SYSCALLS,
                                              !.rv = ret])
                    /\ UNCHANGED log
            /\ heap' = Free(heap, a)
            /\ syscall_evt' = NULL
            /\ UNCHANGED <<brk, nalloc, nsys>>
    /\ last_enter' = [last_enter EXCEPT ![v] = NoEnter]
    /\ seen' = IF syscall_evt = NULL THEN Append(seen, <<>>) ELSE seen
    /\ UNCHANGED <<single_frame, single_config, exec_htable, stale, hooks, th, ntrans>>

\* callback_atexit: an event with the FINISHED flag is submitted, then teardown
single_callback_atexit(v) ==
    /\ phase = "running" /\ atexit_cb /\ sender = "live"
    /\ log' = log_info(log, "VCPU exited, sending exit event.")
    /\ sent' = submit(sent, [QemuEventExec(0) EXCEPT !.flags = EventFlags_FINISHED])
    /\ snd' = sender_teardown(sender_submit(snd,
                 [QemuEventExec(0) EXCEPT !.flags = EventFlags_FINISHED]))
    /\ sender' = teardown(sender)
    /\ UNCHANGED <<single_frame, seen, phase, flags, tb_trans_cb, syscall_cb, syscall_ret_cb,
                   atexit_cb, rv, outside, heap, brk, hooks, th, ntrans, nalloc, nsys,
                   last_enter>>

\* the single-table plugin does not ask the host for the image, and stores
\* the access address and the opcode size without looking at them
SingleImage == [start |-> 0, end |-> 0, entry |-> 0]
SingleMemVaddrs == {5}
SingleInsnSizes == {1}

SingleInit == InitWith(BATCH_SIZE) /\ host = SingleImage
SingleNext ==
    \/ \E p, r, w, i, s, b, ok \in BOOLEAN : single_callback_init(p, r, w, i, s, b, ok)
    \/ \E v \in Vcpu, h \in hooks : single_callback_on_insn_exec(v, h)
    \/ \E v \in Vcpu, h \in hooks, vaddr \in SingleMemVaddrs, is_store \in BOOLEAN :
          single_callback_on_mem_access(v, h, vaddr, is_store)
    \/ \E v \in Vcpu : single_mem_write(v)
    \/ \E v \in Vcpu : check_and_submit(v)
    \/ \E v \in Vcpu, n \in 1..MaxInsns, vaddr \in TbVaddrs : single_tb_trans_enter(v, n, vaddr)
    \/ \E v \in Vcpu, a \in Addr : single_tb_alloc(v, a)
    \/ \E v \in Vcpu, size \in SingleInsnSizes : single_tb_fill(v, size)
    \/ \E v \in Vcpu : single_tb_trans_return(v)
    \/ \E v \in Vcpu, num \in SysNums, args \in SysArgs, a \in Addr :
          single_callback_on_syscall(v, num, args, a)
    \/ \E v \in Vcpu, num \in SysNums, ret \in SysRets, a \in Addr :
          single_callback_after_syscall(v, num, ret, a)
    \/ \E v \in Vcpu : single_callback_atexit(v)
SingleSpec == SingleInit /\ [][SingleNext]_vars

----------------------------------------------------------------------------
(* src/plugin/src/args.c: the command line of the plugin.  A C string is   *)
(* a sequence of pieces: the character '=', a digit, a sign, a blank, or a *)
(* word of other characters.  A pointer is the empty sequence (NULL) or    *)
(* the one-element sequence of what it points to; a token of strtok_r is   *)
(* never empty, so the empty sequence stands for its NULL as well.         *)

NullPtr == <<>>
Ptr(x) == <<x>>

DigitChars == <<"0", "1", "2", "3", "4", "5", "6", "7", "8", "9">>
IsDigit(c) == \E i \in DOMAIN DigitChars : DigitChars[i] = c
DigitVal(c) == (CHOOSE i \in DOMAIN DigitChars : DigitChars[i] = c) - 1

\* a long long int: its sign and the decimal digits of its magnitude, without
\* leading zeros (the empty sequence for 0)
RECURSIVE StripZeros(_)
StripZeros(ds) == IF ds # <<>> /\ Head(ds) = 0 THEN StripZeros(Tail(ds)) ELSE ds
LongLongOf(neg, ds) == [neg |-> neg /\ StripZeros(ds) # <<>>, mag |-> StripZeros(ds)]
RECURSIVE MagLess(_, _)
MagLess(a, b) ==
    \/ Len(a) < Len(b)
    \/ /\ Len(a) = Len(b) /\ a # <<>>
       /\ (Head(a) < Head(b) \/ (Head(a) = Head(b) /\ MagLess(Tail(a), Tail(b))))
LLONG_MAX == [neg |-> FALSE, mag |-> <<9, 2, 2, 3, 3, 7, 2, 0, 3, 6, 8, 5, 4, 7, 7, 5, 8, 0, 7>>]
LLONG_MIN == [neg |-> TRUE, mag |-> <<9, 2, 2, 3, 3, 7, 2, 0, 3, 6, 8, 5, 4, 7, 7, 5, 8, 0, 8>>]

\* strtok_r(str, "=", &saveptr): the leading delimiters are skipped, the token
\* runs to the next delimiter, and saveptr is left behind that delimiter
RECURSIVE SkipDelims(_)
SkipDelims(s) == IF s # <<>> /\ Head(s) = "=" THEN SkipDelims(Tail(s)) ELSE s
RECURSIVE TokenLen(_)
TokenLen(s) == IF s = <<>> \/ Head(s) = "=" THEN 0 ELSE 1 + TokenLen(Tail(s))
strtok_r(str) ==
    LET t == SkipDelims(str)
        n == TokenLen(t) IN
    [token |-> SubSeq(t, 1, n), saveptr |-> SubSeq(t, n + 2, Len(t))]

\* split_arg(arg): the first two tokens of arg, or NULL when there are not two
split_arg(arg) ==
    LET first == strtok_r(arg)
        second == strtok_r(first.saveptr) IN
    IF first.token = <<>> \/ second.token = <<>> THEN NullPtr
    ELSE <<first.token, second.token>>

\* parse_bool(val): a pointer to the boolean, or NULL
true_vals == {<<"true">>, <<"yes">>, <<"1">>, <<"on">>}
false_vals == {<<"false">>, <<"no">>, <<"0">>, <<"off">>}
parse_bool(val) ==
    IF val \in true_vals THEN Ptr(TRUE)
    ELSE IF val \in false_vals THEN Ptr(FALSE)
    ELSE NullPtr

\* strtoll(val, NULL, 10): blanks are skipped, a sign is taken, and the digits
\* that follow are converted; what comes after them is ignored.  A value out
\* of range is LLONG_MAX or LLONG_MIN with ERANGE.  With no digit at all the
\* result is 0 and the C library may set EINVAL or not (einval).
RECURSIVE SkipBlanks(_)
SkipBlanks(s) == IF s # <<>> /\ Head(s) = " " THEN SkipBlanks(Tail(s)) ELSE s
RECURSIVE DigitsLen(_)
DigitsLen(s) == IF s = <<>> \/ ~IsDigit(Head(s)) THEN 0 ELSE 1 + DigitsLen(Tail(s))
strtoll(val, einval) ==
    LET s1 == SkipBlanks(val)
        signed == s1 # <<>> /\ Head(s1) \in {"-", "+"}
        neg == s1 # <<>> /\ Head(s1) = "-"
        s2 == IF signed THEN Tail(s1) ELSE s1
        n == DigitsLen(s2)
        v == LongLongOf(neg, [i \in 1..n |-> DigitVal(s2[i])]) IN
    IF n = 0 THEN [value |-> LongLongOf(FALSE, <<>>),
                   errno |-> IF einval THEN "EINVAL" ELSE "0"]
    ELSE IF ~v.neg /\ MagLess(LLONG_MAX.mag, v.mag)
         THEN [value |-> LLONG_MAX, errno |-> "ERANGE"]
    ELSE IF v.neg /\ MagLess(LLONG_MIN.mag, v.mag)
         THEN [value |-> LLONG_MIN, errno |-> "ERANGE"]
    ELSE [value |-> v, errno |-> "0"]

\* static const Arg options[], built without RELEASE.  entry is the name of
\* the field of Args, "-1" for -1; handler is the name of the function, "NULL"
\* for NULL
Option(name, type, default_value, entry, handler) ==
    [name |-> <<name>>, type |-> type, required |-> FALSE,
     default_value |-> default_value, entry |-> entry, handler |-> handler]
options ==
    << Option("help", "Boolean", NullPtr, "-1", "print_help"),
       Option("log_file", "String", Ptr(<<"-">>), "log_file", "NULL"),
       Option("log_level", "LongLong", Ptr(<<"3">>), "log_level", "NULL"),
       Option("sock_path", "String", Ptr(<<"/dev/shm/cannonball.sock">>), "sock_path", "NULL"),
       Option("trace_pc", "Boolean", Ptr(<<"false">>), "trace_pc", "NULL"),
       Option("trace_reads", "Boolean", Ptr(<<"false">>), "trace_reads", "NULL"),
       Option("trace_writes", "Boolean", Ptr(<<"false">>), "trace_writes", "NULL"),
       Option("trace_syscalls", "Boolean", Ptr(<<"false">>), "trace_syscalls", "NULL"),
       Option("trace_instrs", "Boolean", Ptr(<<"false">>), "trace_instrs", "NULL"),
       Option("trace_branches", "Boolean", Ptr(<<"false">>), "trace_branches", "NULL"),
       Option("debug_args", "Boolean", Ptr(<<"false">>), "-1", "debug_args") >>

\* option->handler(): print_help and debug_args both return HANDLER_EXIT,
\* which is false
Handler(h) == h \notin {"print_help", "debug_args"}

\* typedef struct Args, as calloc leaves it: every field NULL
ZeroedArgs == [f \in {"log_file", "log_level", "sock_path", "trace_pc", "trace_reads", "trace_writes", "trace_syscalls", "trace_instrs", "trace_branches"} |-> NullPtr]

\* the switch (option->type) of args_parse, which the code has twice: val is
\* converted and stored in the field of the option, or an error is returned
StoreValue(a, option, val, einval) ==
    IF option.type = "Boolean"
    THEN IF parse_bool(val) = NullPtr
         THEN [args |-> a, rv |-> "ArgumentError"]
         ELSE [args |-> [a EXCEPT ![option.entry] = parse_bool(val)], rv |-> "Success"]
    ELSE IF option.type = "String"
    THEN [args |-> [a EXCEPT ![option.entry] = Ptr(val)], rv |-> "Success"]
    ELSE LET r == strtoll(val, einval) IN
         IF r.value \in {LLONG_MAX, LLONG_MIN, LongLongOf(FALSE, <<>>)} /\ r.errno # "0"
         THEN [args |-> a, rv |-> "ArgumentError"]
         ELSE [args |-> [a EXCEPT ![option.entry] = Ptr(r.value)], rv |-> "Success"]

\* the inner loop of args_parse: for (int i = 0; i < argc; i++), from the
\* i-th argument on; rv is "Success" when the loop ran to its end
RECURSIVE ScanArgv(_, _, _, _, _, _)
ScanArgv(a, option, av, i, opt_seen, einval) ==
    IF i > Len(av) THEN [args |-> a, rv |-> "Success", opt_seen |-> opt_seen]
    ELSE LET tokens == split_arg(av[i]) IN
         IF av[i] = NullPtr \/ tokens = NullPtr
         THEN ScanArgv(a, option, av, i + 1, opt_seen, einval)
         ELSE IF tokens[1] # option.name
         THEN ScanArgv(a, option, av, i + 1, opt_seen, einval)
         ELSE IF option.handler # "NULL"
         THEN IF ~Handler(option.handler)
              THEN [args |-> a, rv |-> "ArgumentHandlerExit", opt_seen |-> opt_seen]
              ELSE ScanArgv(a, option, av, i + 1, opt_seen, einval)
         ELSE LET st == StoreValue(a, option, tokens[2], einval) IN
              IF st.rv # "Success"
              THEN [args |-> st.args, rv |-> st.rv, opt_seen |-> opt_seen]
              ELSE ScanArgv(st.args, option, av, i + 1, TRUE, einval)

\* the outer loop of args_parse: for (size_t j = 0; j < n_options; j++), from
\* the j-th option on, with the default stored for an option not seen
RECURSIVE ParseOptions(_, _, _, _)
ParseOptions(a, j, av, einval) ==
    IF j > Len(options) THEN [args |-> a, rv |-> "Success"]
    ELSE LET option == options[j]
             scan == ScanArgv(a, option, av, 1, FALSE, einval) IN
         IF scan.rv # "Success" THEN [args |-> scan.args, rv |-> scan.rv]
         ELSE IF ~scan.opt_seen /\ option.required
         THEN [args |-> scan.args, rv |-> "ArgumentError"]
         ELSE IF ~scan.opt_seen /\ ~option.required /\ option.default_value # NullPtr /\ option.entry # "-1"
         THEN LET st == StoreValue(scan.args, option, option.default_value[1], einval) IN
              IF st.rv # "Success" THEN st
              ELSE ParseOptions(st.args, j + 1, av, einval)
         ELSE ParseOptions(scan.args, j + 1, av, einval)

\* ErrorCode args_parse(int argc, char **argv), the first step of
\* qemu_plugin_install: the global args is allocated and filled in
args_parse(einval) ==
    /\ phase = "uninit" /\ args_result = "none"
    /\ LET r == ParseOptions(ZeroedArgs, 1, argv, einval) IN
          /\ args_global' = Ptr(r.args)
          /\ args_result' = r.rv
    /\ UNCHANGED <<argv, phase, flags, host, batch_size, exec_htable, syscall_evt, stale,
                   tb_trans_cb, syscall_cb, syscall_ret_cb, atexit_cb, sender, rv, ran,
                   codes, heap, brk, tables, locks, hooks, th, stream, log, ntrans,
                   nalloc, nsys, seen, dropped, last_enter>>

\* the most arguments on a command line
MaxArgc == 2

\* the arguments a command line is made of: name=value and some malformed ones
ArgStrings ==
    LET ArgNames == {"help", "log_file", "log_level", "sock_path", "trace_pc", "trace_branches", "debug_args", "bogus"}
        ArgValues == {<<"true">>, <<"off">>, <<"maybe">>, <<"4">>, <<"0">>, <<"-", "1">>, <<"4", "x">>, <<"x">>, <<"/tmp/a">>, <<"/tmp/a", "=", "b">>, <<"9", "9", "9", "9", "9", "9", "9", "9", "9", "9", "9", "9", "9", "9", "9", "9", "9", "9", "9", "9">>} IN
    {<<n, "=">> \o v : n \in ArgNames, v \in ArgValues}
        \cup {<<"trace_pc">>, <<"log_file", "=">>, <<"=", "trace_pc", "=", "true">>}
ArgsInit ==
    \E av \in UNION {[1..n -> ArgStrings] : n \in 0..MaxArgc} :
        InitOf(BATCH_SIZE, av) /\ host = SingleImage
ArgsNext == \E einval \in BOOLEAN : args_parse(einval)
ArgsSpec == ArgsInit /\ [][ArgsNext]_vars

----------------------------------------------------------------------------
(* Properties *)

Sent(tags) == {i \in DOMAIN sent : sent[i].tag \in tags}
PerInsn == {"Pc", "Instr", "MemAccess"}
Registered == PerInsn \cup {"Syscall"}

\* C1: a record inserted into one of the three tables is handed to submit at
\* most once: no two submit calls carry the same record
C1_AtMostOnce ==
    \A i, j \in Sent(Registered) : sent[i].id = sent[j].id => i = j

\* a per-instruction record and a syscall record have both been submitted, and
\* the hook of the submitted per-instruction record can fire again
C1_Witness ==
    /\ Sent({"Syscall"}) # {}
    /\ \E i \in Sent(PerInsn) : \E h \in hooks : h.rid = sent[i].id

\* C2: every submitted MemAccess record was found by its memory-access callback
\* and by its execute callback (mem and exec both set) before the submit call
C2_BothObserved ==
    \A i \in Sent({"MemAccess"}) :
        {seen[sent[i].id][k] : k \in DOMAIN seen[sent[i].id]} = {"mem", "exec"}

\* a MemAccess event of a guest access to address 0 has been submitted
C2_Witness ==
    \E i \in Sent({"MemAccess"}) :
        sent[i].addr = 0 /\ seen[sent[i].id] = <<"exec", "mem">>

\* the pc of a record is the vaddr of the instruction its hooks are attached to
PcOfTranslation(evt) == \A g \in hooks : g.rid = evt.id => g.pc = evt.pc

\* C3: of the execute callback and the memory-access callback of a registered
\* memory record, the one that arrives first submits nothing and the one that
\* arrives second submits the record in that callback and removes it, in either
\* order; the event carries the pc set at translation and the addr and is_write
\* the memory-access callback was given
C3_SecondSubmits ==
    [][\A v \in Vcpu, h \in hooks :
         LET w == h.ud
             evt == heap[w].msg
             found == HasKey(mem_events_htable, w) IN
         /\ (callback_on_insn_exec_mem(v, h) /\ found) =>
              IF heap[w].mem
              THEN /\ sent' = Append(sent, heap[evt])
                   /\ ~HasKey(mem_events_htable', w)
                   /\ PcOfTranslation(heap[evt])
              ELSE /\ sent' = sent
                   /\ HasKey(mem_events_htable', w)
         /\ \A vaddr \in MemVaddrs, is_store \in BOOLEAN :
              (callback_on_mem_access(v, h, vaddr, is_store) /\ found) =>
                IF heap[w].exec
                THEN /\ sent' = Append(sent, [heap[evt] EXCEPT !.addr = vaddr,
                                                               !.is_write = is_store])
                     /\ ~HasKey(mem_events_htable', w)
                     /\ PcOfTranslation(heap[evt])
                ELSE /\ sent' = sent
                     /\ HasKey(mem_events_htable', w)
                     /\ heap'[evt].addr = vaddr
                     /\ heap'[evt].is_write = is_store
      ]_vars

\* the memory-access callback came first, with address 5, the execute callback
\* second, and the record was submitted
C3_Witness ==
    \E i \in Sent({"MemAccess"}) :
        /\ seen[sent[i].id] = <<"mem", "exec">> /\ sent[i].addr = 5
        /\ \E g \in hooks : g.rid = sent[i].id /\ g.pc = sent[i].pc

\* C4: a Syscall event is submitted only by a syscall-return callback, on a vCPU
\* whose last syscall-enter had the num of the return; the event has the num and
\* the args of that enter and the ret of the return as rv
C4_SyscallPairing ==
    [][(Len(sent') > Len(sent) /\ sent'[Len(sent')].tag = "Syscall") =>
         /\ Len(sent') = Len(sent) + 1
         /\ \E v \in Vcpu, num \in SysNums, ret \in SysRets :
               callback_after_syscall(v, num, ret)
         /\ \A v \in Vcpu, num \in SysNums, ret \in SysRets :
               callback_after_syscall(v, num, ret) =>
                  /\ last_enter[v] = [num |-> num, args |-> sent'[Len(sent')].args]
                  /\ sent'[Len(sent')].num = num
                  /\ sent'[Len(sent')].rv = ret
      ]_vars

\* a Syscall event with a return value other than the placeholder was submitted
C4_Witness ==
    \E i \in Sent({"Syscall"}) : sent[i].rv # -1 /\ sent[i].args = <<1, 2, 3, 4, 5, 6, 7, 8>>

C5_Inv ==
    /\ \A e1, e2 \in syscall_htable : e1.key = e2.key => e1 = e2
    /\ \A i \in Sent({"Syscall"}) : sent[i].id \notin dropped

C5_Step ==
    /\ \A v \in Vcpu, num \in SysNums, args \in SysArgs, a \in Addr :
         newsyscall(v, num, args, a) =>
            /\ g_hash_table_lookup(syscall_htable', v) = a
            /\ heap'[a].num = num /\ heap'[a].args = args
            /\ sent' = sent
            /\ HasKey(syscall_htable, v) =>
                  heap[g_hash_table_lookup(syscall_htable, v)].id \in dropped'
    /\ \A v \in Vcpu, num \in SysNums, ret \in SysRets :
         LET evt == g_hash_table_lookup(syscall_htable, v) IN
         (callback_after_syscall(v, num, ret) /\ evt # NULL /\ heap[evt].num = num) =>
            sent' = Append(sent, [heap[evt] EXCEPT !.rv = ret])

\* C5: the syscall table never holds two entries of one vCPU; a syscall-enter
\* on a vCPU that has an entry replaces it, the replaced record is never
\* submitted, and a return with the num of the new entry submits exactly one
\* event, for the new entry
C5_OnePerVcpu == []C5_Inv /\ [][C5_Step]_vars

\* two enters, one record dropped, and one event: num = 2, rv = 7
C5_Witness ==
    /\ nsys = 2 /\ dropped # {}
    /\ Len(sent) = 1 /\ sent[1].tag = "Syscall" /\ sent[1].num = 2 /\ sent[1].rv = 7
    /\ sent[1].id = nalloc

\* C6: a syscall-return on a vCPU that has no entry submits nothing and leaves
\* the three tables, and the records in them, as they are
C6_StrayReturn ==
    [][\A v \in Vcpu, num \in SysNums, ret \in SysRets :
         (callback_after_syscall(v, num, ret) /\ ~HasKey(syscall_htable, v)) =>
            UNCHANGED <<sent, syscall_htable, events_htable, mem_events_htable, heap>>
      ]_vars

\* a vCPU without an entry can return from a syscall while another vCPU has an
\* entry and a per-instruction record is registered
C6_Witness ==
    /\ phase = "running" /\ syscall_ret_cb
    /\ \E v, u \in Vcpu :
          /\ ~HasKey(syscall_htable, v) /\ th[v] = Idle
          /\ HasKey(syscall_htable, u)
    /\ events_htable # {}

\* C7: a syscall-return whose num differs from the num of the vCPU's entry
\* removes the entry, submits nothing and logs a warning
C7_MismatchLogged ==
    [][\A v \in Vcpu, num \in SysNums, ret \in SysRets :
         LET evt == g_hash_table_lookup(syscall_htable, v) IN
         (callback_after_syscall(v, num, ret) /\ evt # NULL /\ heap[evt].num # num) =>
            /\ ~HasKey(syscall_htable', v)
            /\ sent' = sent
            /\ Len(log') > Len(log)
      ]_vars

\* C8: in branch-only mode the translation of a block has made one record, for
\* the last instruction of the block, and attached an execute hook for it
C8_BranchOnlyOneRecord ==
    \A v \in Vcpu :
        (/\ BRANCHONLY(flags)
         /\ th[v].pc = "tb_loop"
         /\ th[v].k = Work(flags, th[v].num_insns)) =>
            /\ Cardinality(th[v].hooks) = 1
            /\ \A h \in th[v].hooks :
                  /\ h.cb = "insn_exec"
                  /\ h.pc = InsnVaddr(th[v].vaddr, th[v].num_insns - 1)
                  /\ HasKey(events_htable, h.ud)
                  /\ heap[h.ud].tag = "Pc" /\ heap[h.ud].branch

\* C9: at most one Load event is submitted, and every per-instruction event is
\* submitted after a Load event
C9_SingleLoad ==
    /\ Cardinality(Sent({"Load"})) <= 1
    /\ \A i \in Sent(PerInsn) : \E j \in Sent({"Load"}) : j < i

Submitted(id) == \E i \in DOMAIN sent : sent[i].id = id

\* C10: a callback fired with the pointer of a record that was submitted and
\* removed finds no record in its table
C10_SubmittedThenMiss ==
    [][\A v \in Vcpu, h \in hooks :
         /\ (callback_on_insn_exec(v, h) /\ Submitted(h.rid)) =>
               ~HasKey(events_htable, h.ud)
         /\ (callback_on_insn_exec_mem(v, h) /\ Submitted(h.rid)) =>
               ~HasKey(mem_events_htable, h.ud)
         /\ \A vaddr \in MemVaddrs, is_store \in BOOLEAN :
               (callback_on_mem_access(v, h, vaddr, is_store) /\ Submitted(h.rid)) =>
                   ~HasKey(mem_events_htable, h.ud)
      ]_vars

\* C11: an execute or memory-access callback whose user-data pointer is not a
\* key of its table submits nothing and changes no table and no record
C11_MissIsNoOp ==
    [][\A v \in Vcpu, h \in hooks :
         /\ (callback_on_insn_exec(v, h) /\ ~HasKey(events_htable, h.ud)) =>
               UNCHANGED <<sent, events_htable, mem_events_htable, syscall_htable, heap>>
         /\ (callback_on_insn_exec_mem(v, h) /\ ~HasKey(mem_events_htable, h.ud)) =>
               UNCHANGED <<sent, events_htable, mem_events_htable, syscall_htable, heap>>
         /\ \A vaddr \in MemVaddrs, is_store \in BOOLEAN :
               (callback_on_mem_access(v, h, vaddr, is_store)
                  /\ ~HasKey(mem_events_htable, h.ud)) =>
               UNCHANGED <<sent, events_htable, mem_events_htable, syscall_htable, heap>>
      ]_vars

\* an execute hook whose record was submitted and removed can fire again, while
\* a record of another instruction is still registered
C11_Witness ==
    /\ phase = "running"
    /\ \E v \in Vcpu : th[v] = Idle
    /\ \E h \in hooks :
          /\ h.cb = "insn_exec" /\ Submitted(h.rid)
          /\ ~HasKey(events_htable, h.ud)
    /\ events_htable # {}

RecordIds == 1..(MaxAlloc + MaxSys)

\* the record with this id is registered in a per-instruction table
InTable(id) ==
    \E e \in events_htable \cup mem_events_htable : heap[e.key].id = id

\* the execute callback has found the record with this id
Executed(id) ==
    id \in DOMAIN seen /\ \E k \in DOMAIN seen[id] : seen[id][k] = "exec"

\* C12: a registered record is removed exactly once: a record that was removed
\* (and submitted) is never in a table again, and a record whose instruction the
\* guest has executed is eventually removed
C12_RemovedExactlyOnce ==
    /\ [](\A id \in RecordIds : InTable(id) => ~Submitted(id))
    /\ \A id \in RecordIds : (Executed(id) /\ InTable(id)) ~> ~InTable(id)

\* no thread is inside the translation callback
Quiescent == \A v \in Vcpu : th[v] = Idle

InEvents(id) == \E e \in events_htable : heap[e.key].id = id

\* C13: when no callback is in progress, a record in events_htable is one whose
\* execute callback has never fired (the firing of its execute hook leaves it
\* out of the table, and it never comes back), and a record in
\* mem_events_htable has mem or exec false
C13_LeakBound ==
    /\ [](Quiescent =>
            \A e \in mem_events_htable : ~(heap[e.key].mem /\ heap[e.key].exec))
    /\ [][\A v \in Vcpu, h \in hooks :
            /\ callback_on_insn_exec(v, h) => ~InEvents(h.rid)'
            /\ (h.cb = "insn_exec" /\ ~InEvents(h.rid)) => ~InEvents(h.rid)'
         ]_vars

\* with no callback in progress, a memory record whose execute callback has
\* fired lingers with exec true and mem false
C13_Witness ==
    /\ Quiescent
    /\ \E e \in mem_events_htable : heap[e.key].exec /\ ~heap[e.key].mem
    /\ \E h \in hooks : h.cb = "insn_exec_mem" /\ HasKey(mem_events_htable, h.ud)

\* the hooks among hs that are attached to the instruction at pc, by the kind
\* of their record and their callback
HooksOf(hs, pc, tag, cb) == {h \in hs : h.pc = pc /\ h.tag = tag /\ h.cb = cb}

B2N(b) == IF b THEN 1 ELSE 0

C14_AtReturn ==
    \A v \in Vcpu :
        (th[v].pc = "tb_loop" /\ th[v].k = Work(flags, th[v].num_insns)
           /\ ~BRANCHONLY(flags)) =>
        \A i \in 0..(th[v].num_insns - 1) :
            /\ Cardinality(HooksOf(th[v].hooks, InsnVaddr(th[v].vaddr, i), "Pc", "insn_exec")) = B2N(PC(flags))
            /\ Cardinality(HooksOf(th[v].hooks, InsnVaddr(th[v].vaddr, i), "Instr", "insn_exec")) = B2N(INSTRS(flags))
            /\ Cardinality(HooksOf(th[v].hooks, InsnVaddr(th[v].vaddr, i), "MemAccess", "mem_access"))
                  = B2N(READS_WRITES(flags))
            /\ Cardinality(HooksOf(th[v].hooks, InsnVaddr(th[v].vaddr, i), "MemAccess", "insn_exec_mem"))
                  = B2N(READS_WRITES(flags))

\* the hooks made by a step of a translation
NewHooks(v) == th'[v].hooks \ th[v].hooks

C14_Step ==
    \A v \in Vcpu, a \in Addr :
        LET i == WorkInsn(flags, th[v].num_insns, th[v].k + 1)
            pc == InsnVaddr(th[v].vaddr, i) IN
        /\ newpc(v, a) =>
              /\ heap'[a].tag = "Pc" /\ heap'[a].pc = pc
              /\ heap'[a].branch = (i = th[v].num_insns - 1)
              /\ g_hash_table_lookup(events_htable', a) = a
              /\ ~HasKey(mem_events_htable', a)
              /\ NewHooks(v) = HooksOf(th'[v].hooks, pc, "Pc", "insn_exec")
              /\ \A h \in NewHooks(v) : h.ud = a
        /\ (\E size \in InsnSizes : newinstr(v, a, size)) =>
              /\ heap'[a].tag = "Instr" /\ heap'[a].pc = pc
              /\ g_hash_table_lookup(events_htable', a) = a
              /\ ~HasKey(mem_events_htable', a)
              /\ NewHooks(v) = HooksOf(th'[v].hooks, pc, "Instr", "insn_exec")
              /\ \A h \in NewHooks(v) : h.ud = a
        /\ \A w \in Addr :
              newmemaccess(v, a, w) =>
                 /\ heap'[a].tag = "MemAccess" /\ heap'[a].pc = pc /\ heap'[a].addr = 0
                 /\ heap'[w].msg = a /\ ~heap'[w].mem /\ ~heap'[w].exec
                 /\ g_hash_table_lookup(mem_events_htable', w) = w
                 /\ ~HasKey(events_htable', w) /\ ~HasKey(events_htable', a)
                 /\ \A h \in NewHooks(v) : h.ud = w /\ h.tag = "MemAccess"

\* C14: when the configuration is not branch-only, a translation has made, for
\* each instruction of the block, one Pc record iff PC is configured (branch
\* true iff it is the last instruction), one Instr record iff INSTRS is, and
\* one memory record with addr 0 and both flags false iff MEM is; Pc and Instr
\* records are in events_htable and memory records in mem_events_htable
C14_OneRecordPerFeature == []C14_AtReturn /\ [][C14_Step]_vars

\* PC and INSTRS, a block of one instruction, executed once: the Load event,
\* then a Pc event with branch true and an Instr event of that instruction
C14_Witness ==
    /\ flags = EventFlags_PC \cup EventFlags_INSTRS
    /\ ntrans = 1 /\ Len(sent) = 3
    /\ \E i, j \in 2..3 :
          /\ sent[i].tag = "Pc" /\ sent[i].branch /\ sent[j].tag = "Instr"
          /\ sent[i].pc = sent[j].pc

\* C15: after a successful init the translation callback is registered iff PC,
\* MEM, INSTRS or BRANCHES is configured, the two syscall callbacks iff SYSCALLS
\* is, and the atexit callback in every configuration
C15_HooksByConfig ==
    phase = "running" =>
        /\ tb_trans_cb = (PC(flags) \/ READS_WRITES(flags) \/ INSTRS(flags)
                            \/ BRANCHES(flags))
        /\ syscall_cb = SYSCALLS(flags)
        /\ syscall_ret_cb = SYSCALLS(flags)
        /\ atexit_cb

\* init has succeeded with BRANCHES alone: translation and atexit callbacks, no
\* syscall callbacks
C15_Witness ==
    /\ phase = "running" /\ rv = "Success" /\ flags = EventFlags_BRANCHES
    /\ tb_trans_cb /\ atexit_cb /\ ~syscall_cb /\ ~syscall_ret_cb

NoCallbackRegistered == ~tb_trans_cb /\ ~syscall_cb /\ ~syscall_ret_cb /\ ~atexit_cb

\* C16: when the sender's setup fails, init returns an error code other than
\* Success and no translation, syscall or atexit callback is registered, then
\* or later
C16_SetupFailure ==
    /\ [][phase = "uninit" => \A p, r, w, i, s, b \in BOOLEAN :
            callback_init(p, r, w, i, s, b, FALSE) =>
               rv' # "Success" /\ phase' = "failed" /\ NoCallbackRegistered']_vars
    /\ [](phase = "failed" => (rv # "Success" /\ NoCallbackRegistered))

\* args_parse and log_init succeeded, setup failed: the mask is set, the error
\* code is returned, nothing is registered
C16_Witness ==
    /\ ran = <<"args_parse", "log_init", "callback_init">>
    /\ rv = "SenderInitError" /\ sender = "NULL" /\ flags # {}
    /\ NoCallbackRegistered

\* C17: qemu_plugin_install runs args_parse, log_init and callback_init in that
\* order up to the first that fails, returns the error code of that one, and
\* returns Success only when the three succeed
C17_InstallOrder ==
    [][phase = "uninit" => \A args_rv \in ArgsParseRvs, log_rv \in LogInitRvs :
       \A p, r, w, i, s, b, ok \in BOOLEAN :
         qemu_plugin_install(args_rv, log_rv, p, r, w, i, s, b, ok) =>
            LET res == <<args_rv, log_rv, IF ok THEN "Success" ELSE "SenderInitError">>
                steps == <<"args_parse", "log_init", "callback_init">>
                failed == {k \in 1..3 : res[k] # "Success"}
                last == IF failed = {} THEN 3
                        ELSE CHOOSE k \in failed : \A j \in failed : k <= j IN
            /\ ran' = SubSeq(steps, 1, last)
            /\ rv' = res[last]
            /\ (rv' = "Success") = (failed = {})
            /\ last < 3 => (flags' = flags /\ sender' = sender /\ NoCallbackRegistered')
      ]_vars

\* log_init failed: callback_init did not run, the code of log_init is returned
C17_Witness ==
    /\ ran = <<"args_parse", "log_init">> /\ rv = "LogFileOpenFailed"
    /\ phase = "failed" /\ flags = {}

\* C18: the mask computed at init has the MEM bit iff trace_read or trace_write,
\* the PC, INSTRS, SYSCALLS and BRANCHES bits iff the boolean of that name, and
\* no other bit
C18_MaskFromBooleans ==
    [][phase = "uninit" => \A p, r, w, i, s, b, ok \in BOOLEAN :
         callback_init(p, r, w, i, s, b, ok) =>
            /\ ("READS_WRITES" \in flags') = (r \/ w)
            /\ ("PC" \in flags') = p
            /\ ("INSTRS" \in flags') = i
            /\ ("SYSCALLS" \in flags') = s
            /\ ("BRANCHES" \in flags') = b
            /\ flags' \subseteq {"PC", "READS_WRITES", "INSTRS", "SYSCALLS", "BRANCHES"}
      ]_vars

\* init has run with trace_read or trace_write and trace_syscall, nothing else
C18_Witness ==
    /\ ran = <<"args_parse", "log_init", "callback_init">>
    /\ flags = {"READS_WRITES", "SYSCALLS"}

\* C19: once init has returned, no callback changes the configuration mask
C19_MaskReadOnly == [][phase # "uninit" => flags' = flags]_vars

\* translation, execute and atexit callbacks have run and the mask is as init
\* left it
C19_Witness ==
    /\ phase = "running" /\ sender = "torn_down"
    /\ flags = EventFlags_PC \cup EventFlags_SYSCALLS
    /\ Sent({"Load"}) # {} /\ Sent({"Pc"}) # {} /\ Sent({"Syscall"}) # {}

MappingLocks == {"events_htable_lock", "mem_events_htable_lock", "syscall_htable_lock"}

\* C20: no thread ever holds more than one of the three mapping mutexes, no
\* thread takes a mapping mutex while it holds the sender's lock, and the
\* sender's lock is taken with no or one mapping mutex held
C20_LockDiscipline ==
    /\ \A v \in Vcpu : Cardinality(HeldBy(v)) <= 1
    /\ \A a \in acquired :
          /\ a.lock \in MappingLocks => a.held = {}
          /\ a.lock = "sender_lock" =>
                (a.held \subseteq MappingLocks /\ Cardinality(a.held) <= 1)

\* submit has been called with no mutex held (the Load event) and under the
\* mutex of the memory mapping (a completed memory record)
C20_Witness ==
    /\ [lock |-> "sender_lock", held |-> {}] \in acquired
    /\ [lock |-> "mem_events_htable_lock", held |-> {}] \in acquired
    /\ [lock |-> "sender_lock", held |-> {"mem_events_htable_lock"}] \in acquired
    /\ Sent({"MemAccess"}) # {}

InSyscallTable(id) == \E e \in syscall_htable : heap[e.value].id = id

\* the mutex of the mapping the record with this id is registered in
LockOf(id) ==
    IF InSyscallTable(id) THEN "syscall_htable_lock"
    ELSE IF InEvents(id) THEN "events_htable_lock"
    ELSE "mem_events_htable_lock"

\* C21: the step that submits a registered record is the step that removes it
\* from its mapping, and submit is called with the mutex of that mapping held,
\* so no callback finds the record between its submission and its removal; the
\* mem and exec flags of a memory record are written only by the two memory
\* callbacks, on a record that is in the memory mapping
C21_SubmitAndRemove ==
    /\ [][\A id \in RecordIds :
            (Submitted(id)' /\ ~Submitted(id)) =>
               /\ InTable(id) \/ InSyscallTable(id)
               /\ ~(InTable(id)' \/ InSyscallTable(id)')
               /\ [lock |-> "sender_lock", held |-> {LockOf(id)}] \in acquired'
         ]_vars
    /\ [][\A a \in Addr :
            (/\ heap[a].tag = "Wrapper" /\ heap'[a].tag = "Wrapper"
             /\ heap'[a].id = heap[a].id
             /\ <<heap'[a].mem, heap'[a].exec>> # <<heap[a].mem, heap[a].exec>>) =>
               /\ HasKey(mem_events_htable, a)
               /\ \/ \E v \in Vcpu, h \in hooks : callback_on_insn_exec_mem(v, h)
                  \/ \E v \in Vcpu, h \in hooks, vaddr \in MemVaddrs, st \in BOOLEAN :
                        callback_on_mem_access(v, h, vaddr, st)
         ]_vars

\* both flags of a memory record were written, the second write submitted it
\* under the mutex of the memory mapping, and it is in no mapping
C21_Witness ==
    /\ \E i \in Sent({"MemAccess"}) :
          /\ seen[sent[i].id] = <<"mem", "exec">>
          /\ ~InTable(sent[i].id) /\ ~InSyscallTable(sent[i].id)
    /\ [lock |-> "sender_lock", held |-> {"mem_events_htable_lock"}] \in acquired

\* C22: as long as a record lives, no bit of its flags is cleared, and the mem
\* and exec flags of a memory record never go from true to false
C22_Monotonic ==
    [][\A a \in Addr :
         (heap[a] # FreeCell /\ heap'[a] # FreeCell /\ heap'[a].id = heap[a].id) =>
            IF heap[a].tag = "Wrapper"
            THEN (heap[a].mem => heap'[a].mem) /\ (heap[a].exec => heap'[a].exec)
            ELSE heap[a].flags \subseteq heap'[a].flags
      ]_vars

\* the execute callback has set exec, and then the memory callback has set mem
\* and submitted the record
C22_Witness ==
    \E i \in Sent({"MemAccess"}) : seen[sent[i].id] = <<"exec", "mem">>

\* C30: the step that submits the Load event leaves the three mappings
\* unchanged and is a step inside the translation callback; the event carries
\* the start_code, end_code and entry_code the host reports; no Load record is
\* ever a key or a value of a mapping
C30_LoadNotRegistered ==
    /\ [][\A v \in Vcpu :
            tb_submit_load(v) =>
               /\ tables' = tables
               /\ th'[v].pc = "tb_loop"
               /\ sent' = Append(sent, sent'[Len(sent')])
               /\ sent'[Len(sent')].tag = "Load"
               /\ sent'[Len(sent')].min = host.start
               /\ sent'[Len(sent')].max = host.end
               /\ sent'[Len(sent')].entry = host.entry
         ]_vars
    /\ [](\A e \in events_htable \cup mem_events_htable \cup syscall_htable :
             heap[e.value].tag # "Load" /\ (e.key \in Addr => heap[e.key].tag # "Load"))

\* a Load event with the image's codes was submitted while a record was
\* registered
C30_Witness ==
    /\ \E i \in Sent({"Load"}) :
          sent[i].min = 4 /\ sent[i].max = 9 /\ sent[i].entry = 5
    /\ events_htable # {}

\* C29: with MEM configured, a store made by an executed instruction gives a
\* MemAccess event with is_write true; as the host fires a memory hook only
\* for the access kinds of the mask it was registered with, every memory hook
\* the translation callback attaches has to be fired for stores
C29_StoreTraced ==
    \A h \in hooks : h.cb = "mem_access" => TRUE \in MemKinds(h.rw)

\* C23: every callback returns to the host, with no mapping mutex held, on
\* every path (a miss and a syscall mismatch included), and no callback waits
\* for ever: the process is never killed inside a callback, a thread that is
\* in no callback holds no mutex, and a thread that has entered the
\* translation callback leaves it
C23_HooksReturn ==
    /\ [](phase # "crashed")
    /\ [](\A v \in Vcpu : th[v] = Idle => HeldBy(v) = {})
    /\ \A v \in Vcpu : (th[v] # Idle) ~> (th[v] = Idle)

\* C24: when the allocation of a record fails in the translation callback or
\* in the syscall-enter callback, nothing is inserted into a mapping, no hook
\* is attached, and the callback goes on and returns
C24_AllocFailureDrops ==
    [][\A v \in Vcpu, fn \in AllocSites :
         calloc_fails(v, fn) =>
            /\ tables' = tables
            /\ hooks' = hooks
            /\ phase' = "running"
            /\ th'[v] # Crashed
            /\ (th[v] # Idle => th'[v].hooks = th[v].hooks)
      ]_vars

\* C28: whatever size the host reports for an instruction, at most 16 bytes
\* (the capacity of the opcode field) are copied into the Instr record, and
\* opcode_size is the size the host reported
C28_OpcodeBounded ==
    [][\A v \in Vcpu, a \in Addr, size \in InsnSizes \cup WideInsnSizes :
         newinstr(v, a, size) =>
            /\ Len(heap'[a].opcode) <= MAX_OPCODE_SIZE
            /\ heap'[a].opcode_size = size
      ]_vars

\* the events written to the socket, without the terminator
WireEvents(s) == SelectSeq(s.wire, LAMBDA x : x # Terminator)
IsPrefix(a, b) == Len(a) <= Len(b) /\ \A i \in 1..Len(a) : a[i] = b[i]

\* submit is called on a sender that is set up, not torn down and not failed
LiveSubmit == sent' # sent /\ sender = "live" /\ ~snd.failed

\* C25: on a live sender with batch size B fewer than B events are buffered
\* and not yet written; a submit call flushes exactly when it brings the
\* buffer to B events, and no other step flushes; the events written to the
\* socket are a prefix of the submitted events, in the order of the submit
\* calls
C25_Batching ==
    /\ [](snd # NoSender =>
            /\ Len(snd.buffer) < batch_size
            /\ IsPrefix(WireEvents(snd), sent))
    /\ [][/\ LiveSubmit =>
               /\ sent' = Append(sent, sent'[Len(sent')])
               /\ (snd'.flushes = snd.flushes + 1) <=> (Len(snd.buffer) + 1 = batch_size)
               /\ snd'.flushes \in {snd.flushes, snd.flushes + 1}
               /\ snd'.flushes = snd.flushes =>
                     /\ snd'.buffer = Append(snd.buffer, sent'[Len(sent')])
                     /\ snd'.wire = snd.wire
               /\ (snd'.flushes # snd.flushes /\ snd.sock = "open") =>
                     /\ snd'.buffer = <<>>
                     /\ snd'.wire = snd.wire \o Append(snd.buffer, sent'[Len(sent')])
          /\ (sent' = sent /\ sender' = sender /\ snd # NoSender) =>
               snd'.flushes = snd.flushes
       ]_vars

\* a full batch has been written and a later event waits in the buffer
C25_Witness ==
    /\ sender = "live" /\ ~snd.failed
    /\ snd.flushes = 1
    /\ Len(snd.wire) = batch_size
    /\ Len(snd.buffer) = 1
    /\ Len(sent) = batch_size + 1

C27_FailureLatch ==
    [][snd.failed =>
         /\ snd'.failed
         /\ snd'.wire = snd.wire
         /\ snd'.sock # "open"
         /\ snd'.flushes = snd.flushes
         /\ sent' # sent =>
               /\ sent' = Append(sent, sent'[Len(sent')])
               /\ phase' = "running"
               /\ \A v \in Vcpu : th[v] = Idle => th'[v] = Idle
               /\ \A id \in RecordIds :
                     (Submitted(id)' /\ ~Submitted(id)) =>
                        /\ InTable(id) \/ InSyscallTable(id)
                        /\ ~(InTable(id)' \/ InSyscallTable(id)')
      ]_vars

\* the write of the first batch failed, and a callback has since submitted a
\* record, which is in no mapping and not on the socket
C27_Witness ==
    /\ sender = "live" /\ snd.failed
    /\ snd.flushes = 1 /\ snd.wire = <<>> /\ snd.buffer = <<>>
    /\ Len(sent) = batch_size + 1
    /\ sent[Len(sent)].tag # "Load"
    /\ ~InTable(sent[Len(sent)].id) /\ ~InSyscallTable(sent[Len(sent)].id)

\* C31: an execute hook of a Pc or Instr record submits nothing but the record
\* it was attached for: the firing that finds that record not yet submitted
\* submits it, once, and removes it, and every firing after the record was
\* submitted submits nothing; no record is submitted twice
C31_OneEventPerTranslation ==
    /\ [](\A i, j \in DOMAIN sent :
            (sent[i].tag \in {"Pc", "Instr"} /\ sent[i].id = sent[j].id) => i = j)
    /\ [][\A v \in Vcpu, h \in hooks :
            callback_on_insn_exec(v, h) =>
               IF Submitted(h.rid) THEN sent' = sent
               ELSE /\ sent' = Append(sent, sent'[Len(sent')])
                    /\ sent'[Len(sent')].id = h.rid
                    /\ sent'[Len(sent')].tag = h.tag
                    /\ ~HasKey(events_htable', h.ud)
         ]_vars

\* C32: a syscall-enter or syscall-return callback on one vCPU leaves the
\* entry of every other vCPU in the syscall table, and the record the entry
\* points at, as they were, and neither submits nor discards that record
C32_OtherVcpuUntouched ==
    [][\A a \in Vcpu :
         ((\E num \in SysNums, args \in SysArgs, p \in Addr : newsyscall(a, num, args, p))
          \/ (\E num \in SysNums, ret \in SysRets : callback_after_syscall(a, num, ret))) =>
            \A b \in Vcpu \ {a} :
               LET evt == g_hash_table_lookup(syscall_htable, b) IN
               /\ g_hash_table_lookup(syscall_htable', b) = evt
               /\ evt # NULL =>
                     /\ heap'[evt] = heap[evt]
                     /\ ~Submitted(heap[evt].id)'
                     /\ heap[evt].id \notin dropped'
      ]_vars

\* a syscall of one vCPU was entered and submitted while the entry of the
\* other vCPU, made before it, stayed in the table
C32_Witness ==
    \E e \in syscall_htable, i \in Sent({"Syscall"}) :
        /\ heap[e.value].tag = "Syscall"
        /\ heap[e.value].id < sent[i].id
        /\ heap[e.value].rv = -1

\* C33: once callback_atexit has called teardown on the sender, no callback
\* calls submit
C33_NoSubmitAfterTeardown ==
    [][sender = "torn_down" => sent' = sent]_vars

\* the cells a mapping refers to: its keys, its values, and the events of the
\* wrappers of the memory mapping
KeyCells(h, ev, mem, sys) ==
    {e.key : e \in ev} \cup {e.key : e \in mem} \cup {e.value : e \in sys}
EventCells(h, mem) == {h[e.key].msg : e \in {x \in mem : h[x.key].tag = "Wrapper"}}
Referenced(a) ==
    a \in KeyCells(heap, events_htable, mem_events_htable, syscall_htable)
           \cup EventCells(heap, mem_events_htable)

C34_Inv ==
    /\ \A e \in events_htable : heap[e.key].tag \in {"Pc", "Instr"} /\ e.value = e.key
    /\ \A e \in mem_events_htable :
          /\ heap[e.key].tag = "Wrapper" /\ e.value = e.key
          /\ heap[heap[e.key].msg].tag = "MemAccess"
    /\ \A e \in syscall_htable : heap[e.value].tag = "Syscall"
    /\ Cardinality(KeyCells(heap, events_htable, mem_events_htable, syscall_htable)
                   \cup EventCells(heap, mem_events_htable))
          = Cardinality(events_htable) + 2 * Cardinality(mem_events_htable)
            + Cardinality(syscall_htable)
    /\ \A i \in DOMAIN sent : sent[i].tag # "free"

C34_Step ==
    \A a \in Addr :
       /\ (heap[a] # FreeCell /\ heap'[a] = FreeCell) =>
             /\ Referenced(a) /\ ~Referenced(a)'
             /\ \E id \in RecordIds :
                   /\ id = heap[a].id
                   /\ \/ Submitted(id)' /\ ~Submitted(id)
                      \/ id \in dropped' \ dropped
       /\ (heap[a] # FreeCell /\ heap'[a] # FreeCell /\ heap'[a] # heap[a]) =>
             /\ Referenced(a) /\ Referenced(a)'
             /\ heap'[a].tag = heap[a].tag /\ heap'[a].id = heap[a].id
       /\ (heap[a] = FreeCell /\ heap'[a] # FreeCell) => Referenced(a)'

\* C34: every key and value of the three mappings, and the event of every
\* registered wrapper, is a live record of the mapping's type, and no record
\* is referred to twice; a record is freed only in the step that removes it
\* from its mapping, which is the step that submits it or discards it on an
\* eviction or a mismatch; a record is written only while it is registered;
\* no freed record is handed to submit
C34_RecordLifetimes == []C34_Inv /\ [][C34_Step]_vars

\* a memory record was submitted and its wrapper and event were freed
C34_Witness ==
    /\ Sent({"MemAccess"}) # {}
    /\ mem_events_htable = {}
    /\ brk = 3 /\ heap[1] = FreeCell /\ heap[2] = FreeCell

\* C35: in the single-table plugin no callback reads or writes a field of an
\* event through its pointer once check_and_submit has removed and freed the
\* event
C35_NoAccessAfterFree == stale = {}

\* the callback of this kind has fired for the record and has returned
Returned(id, what) == id \in DOMAIN seen /\ \E k \in DOMAIN seen[id] : seen[id][k] = what

\* C36: in the single-table plugin, once the execute callback of a translated
\* instruction has fired and returned (and, when MEM is configured, its
\* memory-access callback too), the instruction's event has been submitted
\* and is no longer in the table
C36_SubmittedWhenFired ==
    \A h \in hooks :
       (/\ h.cb = "single_insn_exec"
        /\ Returned(h.rid, "exec")
        /\ READS_WRITES(flags) => Returned(h.rid, "mem")) =>
          /\ Submitted(h.rid)
          /\ \A e \in exec_htable : heap[e.key].id # h.rid

\* C37: in the single-table plugin, the event a syscall-return callback
\* submits has the num and the args of the syscall-enter callback pending on
\* the same vCPU, and a return on a vCPU with no pending enter submits nothing
C37_SyscallOfSameVcpu ==
    [][\A v \in Vcpu, num \in SysNums, ret \in SysRets, a \in Addr :
         single_callback_after_syscall(v, num, ret, a) =>
            /\ last_enter[v] = NoEnter => sent' = sent
            /\ sent' # sent =>
                  /\ sent' = Append(sent, sent'[Len(sent')])
                  /\ last_enter[v] # NoEnter
                  /\ sent'[Len(sent')].num = last_enter[v].num
                  /\ sent'[Len(sent')].args = last_enter[v].args
      ]_vars

\* what the command line gives for an option: the text after "name=" of each
\* argument that starts with it
GivenValues(name) ==
    {SubSeq(argv[i], 3, Len(argv[i])) :
        i \in {k \in DOMAIN argv : Len(argv[k]) > 2 /\ SubSeq(argv[k], 1, 2) = name \o <<"=">>}}

\* the value a text denotes for an option of the type, if it is a valid one:
\* one of the eight boolean words, a decimal number that a long long int
\* holds, any string
IsDecimal(v) ==
    LET ds == IF v # <<>> /\ Head(v) \in {"-", "+"} THEN Tail(v) ELSE v IN
    ds # <<>> /\ \A i \in DOMAIN ds : IsDigit(ds[i])
DecimalOf(v) ==
    LET ds == IF Head(v) \in {"-", "+"} THEN Tail(v) ELSE v IN
    LongLongOf(Head(v) = "-", [i \in DOMAIN ds |-> DigitVal(ds[i])])
InRange(n) == IF n.neg THEN ~MagLess(LLONG_MIN.mag, n.mag) ELSE ~MagLess(LLONG_MAX.mag, n.mag)
Denoted(type, v) ==
    IF type = "Boolean"
    THEN IF v \in true_vals THEN {TRUE} ELSE IF v \in false_vals THEN {FALSE} ELSE {}
    ELSE IF type = "String" THEN {v}
    ELSE IF IsDecimal(v) /\ InRange(DecimalOf(v)) THEN {DecimalOf(v)} ELSE {}
ValidGiven(option) == UNION {Denoted(option.type, v) : v \in GivenValues(option.name)}

\* C38: after args_parse returns Success every field of the Args record is
\* non-NULL and holds a value given for its option on the command line when a
\* valid one is given, and the default of the option otherwise; and when the
\* command line gives an invalid value for a boolean option, args_parse does
\* not return Success
C38_ArgsFilled ==
    /\ args_result = "Success" =>
          \A j \in DOMAIN options :
              options[j].entry # "-1" =>
                  LET field == args_global[1][options[j].entry] IN
                  /\ field # NullPtr
                  /\ IF ValidGiven(options[j]) = {}
                     THEN field[1] \in Denoted(options[j].type, options[j].default_value[1])
                     ELSE field[1] \in ValidGiven(options[j])
    /\ (\E j \in DOMAIN options :
            /\ options[j].type = "Boolean"
            /\ \E v \in GivenValues(options[j].name) : Denoted("Boolean", v) = {})
          => args_result # "Success"

====
